---- MODULE Spec2Model ----
(***************************************************************************)
(* Wire layer of the ELRS host controller: the MSP v1 deframer and typed   *)
(* dispatch of TelemetryHandler, the CRSF deframer, the CRSF and MSP       *)
(* encoders, and the transmitter facade with its TX loop.                  *)
(***************************************************************************)
EXTENDS Integers, Sequences, FiniteSets, TLC

VARIABLES
    th,             \* TelemetryHandler object: parser fields and latest_* snapshots
    rs_spectrum,    \* RadioState::spectrum_data_
    radio,          \* RadioState: the other fields of the singleton
    rs_invoked,     \* state-change callbacks invoked by the last feedMspByte
    app,            \* the application that registered the handler's callbacks
    msp_out,        \* calls made by the last feedMspByte (callbacks, dispatch)
    msp_raw,        \* bytes fed since the parser was last fed in Idle (inclusive)
    msp_pending,    \* the frame on the wire and the bytes of it still to come
    msp_done,       \* the valid device frame whose last byte was just fed, if any
    msp_frames,     \* number of frames put on the wire so far
    msp_garbage,    \* number of free bytes fed so far
    latest_read,    \* a thread in getLatestLinkStats: position, the copy so far
    cd,             \* CrsfDeframer object: st_, addr_, len_, buf_, cnt_
    crsf_out,       \* frames handed to the callback by the last feed
    crsf_raw,       \* bytes fed since the deframer was last fed in A_WAIT (inclusive)
    crsf_script,    \* the scripted stream that was started: <<[noise, frame, lead]>>, or <<>>
    crsf_pending,   \* bytes of the scripted stream still to come
    crsf_emitted,   \* every frame emitted so far, in order
    crsf_garbage,   \* number of free bytes fed so far
    enc_channels,   \* input of the CRSF encoder: uint16_t channels[16]
    enc_frame,      \* the 26-byte frame buildRcChannelsFrame wrote, or <<>>
    enc_msp_in,     \* input of the MSP command builder: <<function, payload>>
    enc_msp_out,    \* the bytes buildMspCommand produced, or <<>>
    enc_msp_size,   \* the out_size buildMspCommand reported
    map_inputs,     \* input of the channel mapping: a ControlInputs value
    map_frame,      \* the 26-byte frame buildChannelFrame wrote for it, or <<>>
    cast_nan,       \* what static_cast<uint16_t> of a NaN float yields in this build
    using_serial_mode_, \* ElrsTransmitter: built on a SerialBridge (no telemetry, no MSP)
    connected,      \* the bridge is connected (device_handle_ != nullptr / connected_)
    usb_last_error, \* bridge last_error_
    running_,       \* ElrsTransmitter::running_
    tx_thread_,     \* ElrsTransmitter::tx_thread_: 0 (null) or the thread object it owns
    tx_loops,       \* thread objects running transmissionLoop: position, snapshot, frame
    tx_sched,       \* transmissionLoop on its clock: now, last_time, the pass's position
    tx_last_error,  \* ElrsTransmitter::last_error_
    tel_running,    \* TelemetryHandler::running_
    tel_thread,     \* TelemetryHandler::telemetry_thread_: 0 (null) or its thread object
    tel_loops,      \* thread objects running telemetryLoop: position
    tel_last_error, \* TelemetryHandler::last_error_
    control_inputs_, \* ElrsTransmitter::control_inputs_
    inputs_mutex_,  \* holder of ElrsTransmitter::inputs_mutex_, or "free"
    msp_last_error, \* MspCommands::last_error_
    callers,        \* application threads calling the facade: position, operation, result
    wire,           \* the last write the bridge accepted: writer, bytes, snapshot flag
    estop_clean,    \* emergencyStop() has returned and no setter has written since
    terminated,     \* the process was ended by std::terminate or a fault
    stop_returned,  \* a stop() that found running_ set has returned and start() was not called since
    steady_clock,   \* std::chrono::steady_clock::now(), ms since construction
    state_mutex_,   \* holder of RadioState::state_mutex_, or "free"
    rs_threads,     \* threads calling RadioState: position, operation, result
    rs_committed,   \* RadioState as the last completed operation left it, and the
                    \* callback the last completed subscription call replaced
    hist_log        \* per history: the values appended since it was last cleared;
                    \* the number of targeted updates and resets made

mspVars == <<th, rs_spectrum, radio, rs_invoked, app, msp_out, msp_raw, msp_pending,
             msp_done, msp_frames, msp_garbage, latest_read>>

crsfVars == <<cd, crsf_out, crsf_raw, crsf_script, crsf_pending, crsf_emitted, crsf_garbage>>

encVars == <<enc_channels, enc_frame, enc_msp_in, enc_msp_out, enc_msp_size, map_inputs,
             map_frame, cast_nan>>

txVars == <<using_serial_mode_, connected, usb_last_error, running_, tx_thread_,
            tx_loops, tx_sched, tx_last_error, tel_running, tel_thread, tel_loops,
            tel_last_error, control_inputs_, inputs_mutex_, msp_last_error,
            callers, wire, estop_clean, terminated, stop_returned>>

rsVars == <<steady_clock, state_mutex_, rs_threads, rs_committed, hist_log>>

vars == <<mspVars, crsfVars, encVars, txVars, rsVars>>

(***************************************************************************)
(* Bounds of the model.                                                    *)
(***************************************************************************)
MaxMspGarbage == 4
MaxMspFrames == 1
MaxCrsfGarbage == 3
MaxChanged == 1
MaxMspPayload == 2
MaxLifecycleCalls == 1
MaxUpdateCalls == 1
MaxUiCalls == 2
MaxTicks == 1
TickMs == 600
MaxHistoryAppends == 202
MaxSingleAppends == 2
MaxSchedTime == 24

(***************************************************************************)
(* uint8_t arithmetic.                                                     *)
(***************************************************************************)
RECURSIVE BitXor(_, _)
BitXor(a, b) ==
    IF a = 0 THEN b
    ELSE IF b = 0 THEN a
    ELSE (((a % 2) + (b % 2)) % 2) + 2 * BitXor(a \div 2, b \div 2)

RECURSIVE BitOr(_, _)
BitOr(a, b) ==
    IF a = 0 THEN b
    ELSE IF b = 0 THEN a
    ELSE (IF a % 2 = 1 \/ b % 2 = 1 THEN 1 ELSE 0) + 2 * BitOr(a \div 2, b \div 2)

U8(x) == x % 256

\* static_cast<int>(static_cast<int8_t>(b))
Int8(b) == IF b >= 128 THEN b - 256 ELSE b

\* The XOR of all bytes of s, folded by halves (XOR is associative).
RECURSIVE XorAll(_)
XorAll(s) ==
    IF s = <<>> THEN 0
    ELSE IF Len(s) = 1 THEN s[1]
    ELSE LET half == Len(s) \div 2
         IN  BitXor(XorAll(SubSeq(s, 1, half)), XorAll(SubSeq(s, half + 1, Len(s))))

(***************************************************************************)
(* TelemetryHandler: MSP v1 deframer and typed handlers.                   *)
(***************************************************************************)
LinkStatsInit ==
    [rssi1 |-> 0, rssi2 |-> 0, link_quality |-> 0, snr |-> 0, tx_power |-> 0,
     valid |-> FALSE]

\* The members of LinkStats in the order of their declaration, which is the
\* order in which the implicit copy constructor copies them.
LinkStatsFields == <<"rssi1", "rssi2", "link_quality", "snr", "tx_power", "valid">>

\* No thread is in getLatestLinkStats.  copied: the members copied so far;
\* during: the values latest_link_stats_ held when a member was copied.
NoLatestRead == [pc |-> "idle", copied |-> 0, result |-> LinkStatsInit, during |-> {}]

BatteryInfoInit ==
    [voltage_mv |-> 0, current_ma |-> 0, capacity_mah |-> 0, valid |-> FALSE]

Event(kind, fn, data) == [kind |-> kind, fn |-> fn, data |-> data]

\* State of a TelemetryHandler after construction, with the three callback
\* slots either registered or empty.
TelemetryHandlerInit(lcb, bcb, scb) ==
    [msp_state |-> "Idle", msp_from_device |-> FALSE, msp_expected_length |-> 0,
     msp_function |-> 0, msp_checksum |-> 0, msp_payload |-> <<>>,
     latest_link_stats |-> LinkStatsInit, latest_battery |-> BatteryInfoInit,
     latest_spectrum |-> <<>>,
     link_stats_callback |-> lcb, battery_callback |-> bcb,
     spectrum_callback |-> scb,
     out |-> <<>>]

\* A reset that only goes back to Idle.
resetMspParser_Mut(s) == [s EXCEPT !.msp_state = "Idle"]

resetMspParser(s) ==
    [s EXCEPT !.msp_state = "Idle", !.msp_from_device = FALSE,
              !.msp_expected_length = 0, !.msp_function = 0,
              !.msp_checksum = 0, !.msp_payload = <<>>]

\* The layout test of parseLinkStats with the legacy branch never taken.
isLegacyLayout_Mut(length) == FALSE

\* if (length >= 10)
isLegacyLayout(length) == length >= 10

\* Result [ok, stats, s]: stats is the out-parameter, s the handler after the
\* spectrum side effects.
parseLinkStats(s, data, length) ==
    IF length <= 0 THEN [ok |-> FALSE, stats |-> LinkStatsInit, s |-> s]
    ELSE IF length < 4 THEN [ok |-> FALSE, stats |-> LinkStatsInit, s |-> s]
    ELSE
      LET legacy == isLegacyLayout(length)
          stats == IF legacy
                   THEN [rssi1 |-> Int8(data[1]), rssi2 |-> Int8(data[2]),
                         link_quality |-> data[3], snr |-> Int8(data[4]),
                         tx_power |-> data[5], valid |-> TRUE]
                   ELSE [rssi1 |-> Int8(data[1]), rssi2 |-> Int8(data[1]),
                         link_quality |-> data[2], snr |-> Int8(data[3]),
                         tx_power |-> data[4], valid |-> TRUE]
          offset == IF legacy THEN 10 ELSE 4
          spectrum == IF length > offset
                      THEN SubSeq(data, offset + 1, length) ELSE <<>>
          s1 == IF spectrum # <<>>
                THEN [s EXCEPT
                        !.latest_spectrum = spectrum,
                        !.out = (s.out \o <<Event("updateSpectrumData", 0, spectrum)>>)
                                \o (IF s.spectrum_callback
                                    THEN <<Event("spectrum_callback", 0, spectrum)>>
                                    ELSE <<>>)]
                ELSE s
      IN [ok |-> TRUE, stats |-> stats, s |-> s1]

parseBatteryInfo(data, length) ==
    IF length < 6 THEN [ok |-> FALSE, battery |-> BatteryInfoInit]
    ELSE [ok |-> TRUE,
          battery |-> [voltage_mv |-> data[1] * 256 + data[2],
                       current_ma |-> data[3] * 256 + data[4],
                       capacity_mah |-> data[5] * 256 + data[6],
                       valid |-> TRUE]]

StatsData(st) == <<st.rssi1, st.rssi2, st.link_quality, st.snr, st.tx_power>>
BatteryData(b) == <<b.voltage_mv, b.current_ma, b.capacity_mah>>

\* A switch that publishes whatever the parser left in its out-parameter.
parsed_Mut(ok) == TRUE

\* if (parseLinkStats(...)), if (parseBatteryInfo(...))
parsed(ok) == ok

\* The function switch of handleMspFrame (reached only by device frames).
dispatchMspFunction(s0, function, payload) ==
    LET s == [s0 EXCEPT !.out = Append(s0.out, Event("dispatch", function, payload))]
    IN  IF function = 45 THEN
          LET r == parseLinkStats(s, payload, Len(payload))
          IN  IF parsed(r.ok)
              THEN [r.s EXCEPT
                      !.latest_link_stats = r.stats,
                      !.out = r.s.out \o
                              (IF s.link_stats_callback
                               THEN <<Event("link_stats_callback", function,
                                            StatsData(r.stats))>>
                               ELSE <<>>)]
              ELSE r.s
        ELSE IF function = 46 THEN
          LET r == parseBatteryInfo(payload, Len(payload))
          IN  IF parsed(r.ok)
              THEN [s EXCEPT
                      !.latest_battery = r.battery,
                      !.out = s.out \o
                              (IF s.battery_callback
                               THEN <<Event("battery_callback", function,
                                            BatteryData(r.battery))>>
                               ELSE <<>>)]
              ELSE s
        ELSE s

handleMspFrame(s, function, fromDevice, payload) ==
    IF ~fromDevice THEN s ELSE dispatchMspFunction(s, function, payload)

\* The ExpectChecksum case of feedMspByte with the comparison dropped.
mspChecksumOk_Mut(s, byte) == TRUE

\* The ExpectChecksum case of feedMspByte.
mspChecksumOk(s, byte) == s.msp_checksum = byte

feedMspByte(s, byte) ==
    CASE s.msp_state = "Idle" ->
           IF byte = 36 THEN [s EXCEPT !.msp_state = "ExpectM"] ELSE s
      [] s.msp_state = "ExpectM" ->
           IF byte = 77 THEN [s EXCEPT !.msp_state = "ExpectDirection"]
           ELSE resetMspParser(s)
      [] s.msp_state = "ExpectDirection" ->
           IF byte = 60 \/ byte = 62
           THEN [s EXCEPT !.msp_from_device = (byte = 62),
                          !.msp_state = "ExpectLength"]
           ELSE resetMspParser(s)
      [] s.msp_state = "ExpectLength" ->
           [s EXCEPT !.msp_expected_length = byte, !.msp_checksum = byte,
                     !.msp_payload = <<>>, !.msp_state = "ExpectFunction"]
      [] s.msp_state = "ExpectFunction" ->
           [s EXCEPT !.msp_function = byte,
                     !.msp_checksum = BitXor(s.msp_checksum, byte),
                     !.msp_state = IF s.msp_expected_length = 0
                                   THEN "ExpectChecksum" ELSE "ReadPayload"]
      [] s.msp_state = "ReadPayload" ->
           [s EXCEPT !.msp_payload = Append(s.msp_payload, byte),
                     !.msp_checksum = BitXor(s.msp_checksum, byte),
                     !.msp_state = IF Len(s.msp_payload) + 1 >= s.msp_expected_length
                                   THEN "ExpectChecksum" ELSE "ReadPayload"]
      [] s.msp_state = "ExpectChecksum" ->
           resetMspParser(
             IF mspChecksumOk(s, byte)
             THEN handleMspFrame(s, s.msp_function, s.msp_from_device, s.msp_payload)
             ELSE s)

\* RadioState::updateSpectrumData as called from parseLinkStats.
MAX_SPECTRUM_SIZE == 256

updateSpectrumData(cur, data) ==
    IF data = <<>> THEN cur
    ELSE IF Len(data) > MAX_SPECTRUM_SIZE
         THEN SubSeq(data, Len(data) - MAX_SPECTRUM_SIZE + 1, Len(data))
         ELSE data

(***************************************************************************)
(* RadioState: the shared telemetry store.  An operand o is the object as  *)
(* one call sees it: o.r the fields, o.sp spectrum_data_, o.inv the        *)
(* callbacks the call has invoked so far.  Times are steady_clock readings *)
(* in ms since construction; voltage and current are kept in mV and mA.    *)
(***************************************************************************)
MAX_HISTORY_SIZE == 200

LiveTelemetryInit ==
    [rssi1 |-> -120, rssi2 |-> -120, linkQuality |-> 0, snr |-> 0, txPower |-> 0,
     packetsReceived |-> 0, packetsTransmitted |-> 0, packetsLost |-> 0,
     packetRate |-> 0, voltage |-> 0, current |-> 0, temperature |-> 0,
     lastUpdate |-> 0, isValid |-> FALSE]

\* The object after RadioState::RadioState().
RadioStateInit ==
    [live_telemetry_ |-> LiveTelemetryInit,
     rssi_history_ |-> <<>>, link_quality_history_ |-> <<>>,
     tx_power_history_ |-> <<>>,
     spectrum_last_update_ |-> 0, start_time_ |-> 0,
     system_ready_ |-> FALSE,
     connection_status_ |-> "Disconnected", last_error_ |-> "", has_error_ |-> FALSE,
     state_change_callback_ |-> "null"]

\* The erase with the position of the removed entry chosen wrongly.
evictOldest_Mut(history) == SubSeq(history, 1, Len(history) - 1)

\* history.erase(history.begin())
evictOldest(history) == Tail(history)

addToHistory(history, value) ==
    LET pushed == Append(history, value)
    IN  IF Len(pushed) > MAX_HISTORY_SIZE THEN evictOldest(pushed) ELSE pushed

\* The slot test of notifyStateChange dropped: the call is made regardless.
callbackSet_Mut(callback) == TRUE

\* if (state_change_callback_)
callbackSet(callback) == callback # "null"

\* notifyStateChange with the call of the callback left out.
notifyStateChange_Mut(o) == o

notifyStateChange(o) ==
    IF callbackSet(o.r.state_change_callback_)
    THEN [o EXCEPT !.inv = Append(@, o.r.state_change_callback_)]
    ELSE o

\* std::max(0, std::min(100, quality))
clampQuality(quality) ==
    LET m == IF quality < 100 THEN quality ELSE 100 IN IF m > 0 THEN m ELSE 0

\* The statements of a RadioState operation that run under state_mutex_ (for
\* markSystemReady: without it), in program order.
Assign(field, value) == [k |-> "assign", f |-> field, v |-> value]
Stamp == [k |-> "stamp", f |-> "lastUpdate", v |-> 0]
Valid == [k |-> "assign", f |-> "isValid", v |-> TRUE]
History(name, value) == [k |-> "history", f |-> name, v |-> value]
Notify == [k |-> "notify", f |-> "", v |-> 0]

Body(op, arg) ==
    CASE op = "updateTelemetry" ->
           << [k |-> "copy", f |-> "", v |-> arg.telemetry[1]], Stamp, Valid,
              History("rssi_history_", arg.telemetry[1].rssi1),
              History("link_quality_history_", arg.telemetry[1].linkQuality),
              History("tx_power_history_", arg.telemetry[1].txPower),
              Notify >>
      [] op = "updateRSSI" ->
           << Assign("rssi1", arg.a), Assign("rssi2", arg.b), Stamp, Valid,
              History("rssi_history_", arg.a), Notify >>
      [] op = "updateLinkQuality" ->
           << Assign("linkQuality", clampQuality(arg.a)), Stamp, Valid,
              History("link_quality_history_", clampQuality(arg.a)), Notify >>
      [] op = "updateTxPower" ->
           << Assign("txPower", arg.a), Stamp, Valid,
              History("tx_power_history_", arg.a), Notify >>
      [] op = "updatePacketStats" ->
           << Assign("packetsReceived", arg.a), Assign("packetsTransmitted", arg.b),
              Assign("packetsLost", arg.c), Stamp, Valid, Notify >>
      [] op = "updateBattery" ->
           << Assign("voltage", arg.a), Assign("current", arg.b), Stamp, Valid,
              Notify >>
      [] op = "updateTemperature" ->
           << Assign("temperature", arg.a), Stamp, Valid, Notify >>
      [] op = "updateSpectrumData" ->
           << [k |-> "spectrum", f |-> "", v |-> arg.data],
              [k |-> "spectrum_stamp", f |-> "", v |-> 0], Notify >>
      [] op = "resetStatistics" ->
           << Assign("packetsReceived", 0), Assign("packetsTransmitted", 0),
              Assign("packetsLost", 0), [k |-> "clear", f |-> "", v |-> 0],
              [k |-> "start_time", f |-> "", v |-> 0], Notify >>
      [] op = "markSystemReady" ->
           << [k |-> "ready", f |-> "", v |-> 0], Notify >>
      [] op = "subscribeToChanges" ->
           << [k |-> "slot", f |-> "", v |-> arg.callback] >>
      [] op = "unsubscribeFromChanges" ->
           << [k |-> "slot", f |-> "", v |-> "null"] >>
      [] OTHER -> << >>

Exec(o, st, now) ==
    CASE st.k = "copy" -> [o EXCEPT !.r.live_telemetry_ = st.v]
      [] st.k = "assign" -> [o EXCEPT !.r.live_telemetry_[st.f] = st.v]
      [] st.k = "stamp" -> [o EXCEPT !.r.live_telemetry_.lastUpdate = now]
      [] st.k = "history" -> [o EXCEPT !.r[st.f] = addToHistory(@, st.v)]
      [] st.k = "spectrum" -> [o EXCEPT !.sp = updateSpectrumData(@, st.v)]
      [] st.k = "spectrum_stamp" -> [o EXCEPT !.r.spectrum_last_update_ = now]
      [] st.k = "clear" -> [o EXCEPT !.r.rssi_history_ = <<>>,
                                     !.r.link_quality_history_ = <<>>,
                                     !.r.tx_power_history_ = <<>>]
      [] st.k = "start_time" -> [o EXCEPT !.r.start_time_ = now]
      [] st.k = "ready" -> [o EXCEPT !.r.system_ready_ = TRUE]
      [] st.k = "slot" -> [o EXCEPT !.r.state_change_callback_ = st.v]
      [] st.k = "notify" -> notifyStateChange(o)

\* updateSpectrumData returns before it takes the lock when data is empty.
ReturnsEarly(op, arg) == op = "updateSpectrumData" /\ arg.data = <<>>

RECURSIVE ExecFrom(_, _, _, _)
ExecFrom(o, body, i, now) ==
    IF i > Len(body) THEN o ELSE ExecFrom(Exec(o, body[i], now), body, i + 1, now)

\* One whole call of a RadioState operation, uninterrupted.
Call(o, op, arg, now) ==
    IF ReturnsEarly(op, arg) THEN o ELSE ExecFrom(o, Body(op, arg), 1, now)

\* The arguments of a call; telemetry is <<>> or holds the one LiveTelemetry
\* passed to updateTelemetry.
NoRadioArgs ==
    [a |-> 0, b |-> 0, c |-> 0, telemetry |-> <<>>, data |-> <<>>,
     callback |-> "null"]

\* The callbacks an application registers on the handler: main.cpp
\* (launchTuiInterface) writes three scalars one call at a time, FTXUIManager
\* (setupTelemetry) reads the whole record, patches it and writes it back.
Apps == {"main", "ftxui"}

linkStatsCallback(o, owner, stats, now) ==
    IF owner = "main"
    THEN LET o1 == Call(o, "updateRSSI",
                        [NoRadioArgs EXCEPT !.a = stats[1], !.b = stats[2]], now)
             o2 == Call(o1, "updateLinkQuality", [NoRadioArgs EXCEPT !.a = stats[3]], now)
         IN  Call(o2, "updateTxPower", [NoRadioArgs EXCEPT !.a = stats[5]], now)
    ELSE LET telemetry == [o.r.live_telemetry_ EXCEPT
                             !.rssi1 = stats[1], !.rssi2 = stats[2],
                             !.linkQuality = stats[3], !.snr = stats[4],
                             !.txPower = stats[5], !.isValid = TRUE]
         IN  Call(o, "updateTelemetry", [NoRadioArgs EXCEPT !.telemetry = <<telemetry>>], now)

batteryCallback(o, owner, battery, now) ==
    IF owner = "main"
    THEN Call(o, "updateBattery",
              [NoRadioArgs EXCEPT !.a = battery[1], !.b = battery[2]], now)
    ELSE LET telemetry == [o.r.live_telemetry_ EXCEPT
                             !.voltage = battery[1], !.current = battery[2],
                             !.isValid = TRUE]
         IN  Call(o, "updateTelemetry", [NoRadioArgs EXCEPT !.telemetry = <<telemetry>>], now)

\* The calls one feedMspByte made, applied to RadioState in the order made.
RECURSIVE ApplyRadioCalls(_, _, _, _)
ApplyRadioCalls(o, out, owner, now) ==
    IF out = <<>> THEN o
    ELSE LET e == Head(out)
             o1 == CASE e.kind = "updateSpectrumData" ->
                          Call(o, "updateSpectrumData",
                               [NoRadioArgs EXCEPT !.data = e.data], now)
                      [] e.kind = "link_stats_callback" ->
                          linkStatsCallback(o, owner, e.data, now)
                      [] e.kind = "battery_callback" ->
                          batteryCallback(o, owner, e.data, now)
                      [] OTHER -> o
         IN  ApplyRadioCalls(o1, Tail(out), owner, now)

(***************************************************************************)
(* CrsfProtocol: channel packing and the RC-channels frame.                *)
(***************************************************************************)
CRSF_ADDRESS_FLIGHT_CONTROLLER == 200
CRSF_FRAMETYPE_RC_CHANNELS_PACKED == 22
CRSF_FRAME_CHANNELS_PAYLOAD_SIZE == 22
CRSF_CHANNEL_COUNT == 16
CRSF_CHANNEL_VALUE_MIN == 172
CRSF_CHANNEL_VALUE_MID == 992
CRSF_CHANNEL_VALUE_MAX == 1811

\* Lookup table of CRC-8/DVB-S2 (polynomial 0xD5, initial value 0); entry i is
\* at position i + 1.
crc8_table ==
    <<
        0, 213, 127, 170, 254,  43, 129,  84,  41, 252,  86, 131, 215,   2, 168, 125,
       82, 135,  45, 248, 172, 121, 211,   6, 123, 174,   4, 209, 133,  80, 250,  47,
      164, 113, 219,  14,  90, 143,  37, 240, 141,  88, 242,  39, 115, 166,  12, 217,
      246,  35, 137,  92,   8, 221, 119, 162, 223,  10, 160, 117,  33, 244,  94, 139,
      157,  72, 226,  55,  99, 182,  28, 201, 180,  97, 203,  30,  74, 159,  53, 224,
      207,  26, 176, 101,  49, 228,  78, 155, 230,  51, 153,  76,  24, 205, 103, 178,
       57, 236,  70, 147, 199,  18, 184, 109,  16, 197, 111, 186, 238,  59, 145,  68,
      107, 190,  20, 193, 149,  64, 234,  63,  66, 151,  61, 232, 188, 105, 195,  22,
      239,  58, 144,  69,  17, 196, 110, 187, 198,  19, 185, 108,  56, 237,  71, 146,
      189, 104, 194,  23,  67, 150,  60, 233, 148,  65, 235,  62, 106, 191,  21, 192,
       75, 158,  52, 225, 181,  96, 202,  31,  98, 183,  29, 200, 156,  73, 227,  54,
       25, 204, 102, 179, 231,  50, 152,  77,  48, 229,  79, 154, 206,  27, 177, 100,
      114, 167,  13, 216, 140,  89, 243,  38,  91, 142,  36, 241, 165, 112, 218,  15,
       32, 245,  95, 138, 222,  11, 161, 116,   9, 220, 118, 163, 247,  34, 136,  93,
      214,   3, 169, 124,  40, 253,  87, 130, 255,  42, 128,  85,   1, 212, 126, 171,
      132,  81, 251,  46, 122, 175,   5, 208, 173, 120, 210,   7,  83, 134,  44, 249
    >>

\* uint8_t crc8(const uint8_t *data, uint8_t length): data is the sequence that
\* starts at the pointer.
RECURSIVE crc8_from(_, _, _, _)
crc8_from(crc, data, i, length) ==
    IF i >= length THEN crc
    ELSE crc8_from(crc8_table[BitXor(crc, data[i + 1]) + 1], data, i + 1, length)

crc8(data, length) == crc8_from(0, data, 0, U8(length))

\* channels[i] masked with 0x03FF: one bit short.
Ch_Mut(channels, i) == channels[i + 1] % 1024

\* channels[i] & 0x07FF, i counted from 0 as in the source.
Ch(channels, i) == channels[i + 1] % 2048
Shr(x, k) == x \div (2 ^ k)
Shl(x, k) == x * (2 ^ k)

packChannels(c) ==
    << U8(Ch(c, 0)),
       U8(BitOr(Shr(Ch(c, 0), 8), Shl(Ch(c, 1), 3))),
       U8(BitOr(Shr(Ch(c, 1), 5), Shl(Ch(c, 2), 6))),
       U8(Shr(Ch(c, 2), 2)),
       U8(BitOr(Shr(Ch(c, 2), 10), Shl(Ch(c, 3), 1))),
       U8(BitOr(Shr(Ch(c, 3), 7), Shl(Ch(c, 4), 4))),
       U8(BitOr(Shr(Ch(c, 4), 4), Shl(Ch(c, 5), 7))),
       U8(Shr(Ch(c, 5), 1)),
       U8(BitOr(Shr(Ch(c, 5), 9), Shl(Ch(c, 6), 2))),
       U8(BitOr(Shr(Ch(c, 6), 6), Shl(Ch(c, 7), 5))),
       U8(Shr(Ch(c, 7), 3)),
       U8(Ch(c, 8)),
       U8(BitOr(Shr(Ch(c, 8), 8), Shl(Ch(c, 9), 3))),
       U8(BitOr(Shr(Ch(c, 9), 5), Shl(Ch(c, 10), 6))),
       U8(Shr(Ch(c, 10), 2)),
       U8(BitOr(Shr(Ch(c, 10), 10), Shl(Ch(c, 11), 1))),
       U8(BitOr(Shr(Ch(c, 11), 7), Shl(Ch(c, 12), 4))),
       U8(BitOr(Shr(Ch(c, 12), 4), Shl(Ch(c, 13), 7))),
       U8(Shr(Ch(c, 13), 1)),
       U8(BitOr(Shr(Ch(c, 13), 9), Shl(Ch(c, 14), 2))),
       U8(BitOr(Shr(Ch(c, 14), 6), Shl(Ch(c, 15), 5))),
       U8(Shr(Ch(c, 15), 3)) >>

\* The number of bytes, counted from frame_out[1], that the CRC covers.
rcFrameCrcLength == CRSF_FRAME_CHANNELS_PAYLOAD_SIZE + 1

buildRcChannelsFrame(channels) ==
    LET head == << CRSF_ADDRESS_FLIGHT_CONTROLLER,
                   CRSF_FRAME_CHANNELS_PAYLOAD_SIZE + 2,
                   CRSF_FRAMETYPE_RC_CHANNELS_PACKED >> \o packChannels(channels)
        crc == crc8(Tail(head), rcFrameCrcLength)
    IN  head \o <<crc>>

(***************************************************************************)
(* MspCommands: the MSP v1 request builder.                                *)
(***************************************************************************)
\* uint8_t calculateMspCrc(const uint8_t *data, uint8_t length): the loop
\* crc ^= data[i] over i .. length-1.
calculateMspCrc_from(crc, data, i, length) ==
    IF i >= length THEN crc
    ELSE BitXor(crc, XorAll(SubSeq(data, i + 1, length)))

calculateMspCrc(data, length) == calculateMspCrc_from(0, data, 0, U8(length))

\* The number of bytes, counted from out[3], that the checksum covers.
mspCrcLength(payload_size) == payload_size + 1

\* std::array<uint8_t, 64> frame, the buffer sendMspCommand passes as out.
MspFrameBufferSize == 64

\* The bytes buildMspCommand stores at out[0], out[1], ... in the order of
\* their indices; payload_size <= 58 keeps every index inside the buffer.
\* out_size = 6 + payload_size, stored in a uint8_t.
mspOutSize(payload_size) == U8(6 + payload_size)

buildMspCommand(function, payload, payload_size) ==
    LET head == <<36, 77, 60, payload_size, function>>
                    \o SubSeq(payload, 1, payload_size)
        crc == calculateMspCrc(SubSeq(head, 4, Len(head)),
                               mspCrcLength(payload_size))
    IN  head \o <<crc>>

(***************************************************************************)
(* The encoders applied to bounded inputs.                                 *)
(***************************************************************************)
ChanVals == {0, 172, 992, 1811, 2047, 1365, 63488}

\* Arrays of 16 channels equal to a base value except at up to MaxChanged
\* places.
ChannelArrays ==
    { [i \in 1..CRSF_CHANNEL_COUNT |-> IF i \in DOMAIN d THEN d[i] ELSE b] :
        b \in ChanVals,
        d \in UNION { [D -> ChanVals] :
                        D \in { D \in SUBSET (1..CRSF_CHANNEL_COUNT) :
                                  Cardinality(D) <= MaxChanged } } }

MspFunctions == {45, 40, 245, 246}
MspPayloadBytes == {0, 1, 238, 239}

RECURSIVE SeqsUpTo(_, _)
SeqsUpTo(S, n) ==
    IF n = 0 THEN {<<>>}
    ELSE LET shorter == SeqsUpTo(S, n - 1)
         IN  shorter \cup { Append(q, x) : q \in shorter, x \in S }

MspRequests ==
    { <<f, q>> : f \in MspFunctions, q \in SeqsUpTo(MspPayloadBytes, MaxMspPayload) }
        \cup { <<45, <<238, 239, 0, 1>>>>, <<45, <<238, 239, 0, 0>>>> }

EncIdle ==
    /\ enc_channels = <<>>
    /\ enc_frame = <<>>
    /\ enc_msp_in = <<>>
    /\ enc_msp_out = <<>>
    /\ enc_msp_size = 0
    /\ map_inputs = <<>>
    /\ map_frame = <<>>
    /\ cast_nan = 0

\* One encoder input is drawn from its bounded set, the other is a fixed
\* representative (all channels at mid; the bind request).
EncInit ==
    /\ \/ /\ enc_channels \in ChannelArrays
          /\ enc_msp_in = <<45, <<238, 239, 0, 1>>>>
       \/ /\ enc_channels = [i \in 1..CRSF_CHANNEL_COUNT |-> CRSF_CHANNEL_VALUE_MID]
          /\ enc_msp_in \in MspRequests
    /\ enc_frame = <<>>
    /\ enc_msp_out = <<>>
    /\ enc_msp_size = 0
    /\ map_inputs = <<>>
    /\ map_frame = <<>>
    /\ cast_nan = 0

EncBuildRcChannelsFrame ==
    /\ enc_frame = <<>>
    /\ enc_frame' = buildRcChannelsFrame(enc_channels)
    /\ UNCHANGED <<enc_channels, enc_msp_in, enc_msp_out, enc_msp_size, map_inputs, map_frame,
                   cast_nan>>
    /\ UNCHANGED <<mspVars, crsfVars, txVars, rsVars>>

EncBuildMspCommand ==
    /\ enc_msp_out = <<>>
    /\ enc_msp_out' = buildMspCommand(enc_msp_in[1], enc_msp_in[2], Len(enc_msp_in[2]))
    /\ enc_msp_size' = mspOutSize(Len(enc_msp_in[2]))
    /\ UNCHANGED <<enc_channels, enc_frame, enc_msp_in, map_inputs, map_frame, cast_nan>>
    /\ UNCHANGED <<mspVars, crsfVars, txVars, rsVars>>

EncNext == EncBuildRcChannelsFrame \/ EncBuildMspCommand

\* Requests of every payload_size a uint8_t can hold.
LongMspRequests == { <<45, [i \in 1..n |-> i % 251]>> : n \in 0..255 }

FrameInit ==
    /\ enc_channels = <<>>
    /\ enc_frame = <<>>
    /\ enc_msp_in \in LongMspRequests
    /\ enc_msp_out = <<>>
    /\ enc_msp_size = 0
    /\ map_inputs = <<>>
    /\ map_frame = <<>>
    /\ cast_nan = 0

FrameNext == EncBuildMspCommand


(***************************************************************************)
(* The inbound MSP byte stream: free bytes, and whole frames that arrive   *)
(* back to back: replies of the module ($M> len function payload checksum),*)
(* echoes of host requests ($M<) and replies damaged on the line.          *)
(***************************************************************************)
MspBytes == {36, 77, 60, 62, 0}

MspWireFrame(dir, function, payload, damage) ==
    <<36, 77, dir, Len(payload), function>> \o payload
        \o <<BitXor(XorAll(<<Len(payload), function>> \o payload), damage)>>

\* Link stats (compact, with spectrum, too short, with a link-quality byte
\* above 100 in 10 bytes), battery (whole, too short),
\* an unknown function; an echoed request; a reply with a damaged checksum.
MspTraffic ==
    { [dir |-> 62, fn |-> 45, payload |-> <<164, 90, 10, 20>>, damage |-> 0],
      [dir |-> 62, fn |-> 45, payload |-> <<164, 90, 10, 20, 1, 2, 3, 4, 5, 6, 7, 8>>,
       damage |-> 0],
      [dir |-> 62, fn |-> 45, payload |-> <<164, 90>>, damage |-> 0],
      [dir |-> 62, fn |-> 45, payload |-> <<164, 90, 200, 20, 1, 0, 0, 0, 0, 0>>,
       damage |-> 0],
      [dir |-> 62, fn |-> 46, payload |-> <<46, 224, 3, 232, 5, 220>>, damage |-> 0],
      [dir |-> 62, fn |-> 46, payload |-> <<46, 224>>, damage |-> 0],
      [dir |-> 62, fn |-> 40, payload |-> <<>>, damage |-> 0],
      [dir |-> 60, fn |-> 45, payload |-> <<238, 239, 0, 0>>, damage |-> 0],
      [dir |-> 62, fn |-> 45, payload |-> <<164, 90, 10, 20>>, damage |-> 1] }

MspValidReply(f) == f.dir = 62 /\ f.damage = 0

MspFeed(b) ==
    \E s \in {feedMspByte([th EXCEPT !.out = <<>>], b)} :
    \E o \in {ApplyRadioCalls([r |-> radio, sp |-> rs_spectrum, inv |-> <<>>],
                              s.out, app, steady_clock)} :
        /\ th' = s
        /\ msp_out' = s.out
        /\ rs_spectrum' = o.sp
        /\ radio' = o.r
        /\ rs_invoked' = o.inv
        /\ UNCHANGED app
        /\ msp_raw' = IF th.msp_state = "Idle" THEN <<b>> ELSE Append(msp_raw, b)

\* A free byte arrives between frames.
MspFeedGarbage ==
    /\ msp_pending = <<>>
    /\ msp_garbage < MaxMspGarbage
    /\ \E b \in MspBytes : MspFeed(b)
    /\ msp_garbage' = msp_garbage + 1
    /\ UNCHANGED latest_read
    /\ msp_done' = <<>>
    /\ UNCHANGED <<msp_pending, msp_frames>>
    /\ UNCHANGED <<crsfVars, encVars, txVars, rsVars>>

\* Replies whose length byte is above 128: 129 and 255 payload bytes.
MspLongTraffic ==
    { [dir |-> 62, fn |-> 40, payload |-> [i \in 1..n |-> i % 7], damage |-> 0] :
        n \in {129, 255} }

\* A frame of the given traffic starts: its first byte arrives.
MspStart(traffic) ==
    /\ msp_pending = <<>>
    /\ msp_frames < MaxMspFrames
    /\ \E f \in traffic :
         LET w == MspWireFrame(f.dir, f.fn, f.payload, f.damage)
         IN  /\ MspFeed(Head(w))
             /\ msp_pending' = <<f, Tail(w)>>
    /\ msp_frames' = msp_frames + 1
    /\ msp_done' = <<>>
    /\ UNCHANGED <<msp_garbage, latest_read>>
    /\ UNCHANGED <<crsfVars, encVars, txVars, rsVars>>

MspStartFrame == MspStart(MspTraffic)

MspStartLongFrame == MspStart(MspLongTraffic)

\* The next byte of the frame on the wire arrives.
MspFeedFrameByte ==
    /\ msp_pending # <<>>
    /\ MspFeed(Head(msp_pending[2]))
    /\ IF Len(msp_pending[2]) = 1
       THEN /\ msp_pending' = <<>>
            /\ msp_done' = IF MspValidReply(msp_pending[1])
                           THEN <<msp_pending[1]>> ELSE <<>>
       ELSE /\ msp_pending' = <<msp_pending[1], Tail(msp_pending[2])>>
            /\ msp_done' = <<>>
    /\ UNCHANGED <<msp_garbage, msp_frames, latest_read>>
    /\ UNCHANGED <<crsfVars, encVars, txVars, rsVars>>

MspInit ==
    /\ \E lcb \in BOOLEAN, bcb \in BOOLEAN, scb \in BOOLEAN :
         th = TelemetryHandlerInit(lcb, bcb, scb)
    /\ rs_spectrum = <<>>
    /\ radio = RadioStateInit
    /\ rs_invoked = <<>>
    /\ app = "ftxui"
    /\ msp_out = <<>>
    /\ msp_raw = <<>>
    /\ msp_pending = <<>>
    /\ msp_done = <<>>
    /\ msp_frames = 0
    /\ msp_garbage = 0
    /\ latest_read = NoLatestRead

\* A handler whose link-stats and battery callbacks an application has
\* registered (neither application registers a spectrum callback), with the
\* UI subscribed to RadioState or not.
TelInit ==
    /\ th = TelemetryHandlerInit(TRUE, TRUE, FALSE)
    /\ rs_spectrum = <<>>
    /\ \E cb \in {"null", "A"} :
         radio = [RadioStateInit EXCEPT !.state_change_callback_ = cb]
    /\ rs_invoked = <<>>
    /\ app \in Apps
    /\ msp_out = <<>>
    /\ msp_raw = <<>>
    /\ msp_pending = <<>>
    /\ msp_done = <<>>
    /\ msp_frames = 0
    /\ msp_garbage = 0
    /\ latest_read = NoLatestRead

MspIdle ==
    /\ th = TelemetryHandlerInit(FALSE, FALSE, FALSE)
    /\ rs_spectrum = <<>>
    /\ radio = RadioStateInit
    /\ rs_invoked = <<>>
    /\ app = "ftxui"
    /\ msp_out = <<>>
    /\ msp_raw = <<>>
    /\ msp_pending = <<>>
    /\ msp_done = <<>>
    /\ msp_frames = 0
    /\ msp_garbage = 0
    /\ latest_read = NoLatestRead

MspNext == MspFeedGarbage \/ MspStartFrame \/ MspFeedFrameByte

\* The stream carries frames with long payloads.
BufNext == MspFeedGarbage \/ MspStartLongFrame \/ MspFeedFrameByte

(***************************************************************************)
(* CrsfDeframer: byte-at-a-time CRSF parser.                               *)
(***************************************************************************)
CrsfDeframerInit ==
    [st |-> "A_WAIT", addr |-> 0, len |-> 0, buf |-> <<>>, cnt |-> 0, out |-> <<>>]

\* CrsfDeframer::reset
crsfReset(d) ==
    [d EXCEPT !.st = "A_WAIT", !.addr = 0, !.len = 0, !.cnt = 0, !.buf = <<>>]

\* One step of the inner loop: for (k < 8) if (crc & 0x80) ... on a uint8_t.
\* One pass of the inner loop body on a uint8_t crc.
crc8ShiftBit(crc) ==
    IF crc >= 128 THEN U8(BitXor(Shl(crc, 1), 213)) ELSE U8(Shl(crc, 1))

\* for (int k = 0; k < 8; ++k)
crc8ShiftBits(crc) ==
    crc8ShiftBit(crc8ShiftBit(crc8ShiftBit(crc8ShiftBit(
        crc8ShiftBit(crc8ShiftBit(crc8ShiftBit(crc8ShiftBit(crc))))))))

RECURSIVE crc8_dvb_s2_from(_, _, _, _)
crc8_dvb_s2_from(crc, data, i, len) ==
    IF i >= len THEN crc
    ELSE LET next == crc8ShiftBits(BitXor(crc, data[i + 1]))
         IN  IF next >= 0 THEN crc8_dvb_s2_from(next, data, i + 1, len) ELSE next

crc8_dvb_s2(data, len) == crc8_dvb_s2_from(0, data, 0, len)

\* The number of bytes of buf_ the deframer's CRC covers.
crsfCrcLength(buf) == Len(buf) - 1

\* if (calc == crc) with the comparison dropped.
crsfCrcMatches_Mut(calc, crc) == TRUE

\* if (calc == crc)
crsfCrcMatches(calc, crc) == calc = crc

\* The BODY case once cnt_ has reached len_.
crsfBodyComplete(d) ==
    IF Len(d.buf) >= 2
    THEN LET type == d.buf[1]
             crc == d.buf[Len(d.buf)]
             calc == crc8_dvb_s2(d.buf, crsfCrcLength(d.buf))
         IN  IF crsfCrcMatches(calc, crc)
             THEN [d EXCEPT !.out = Append(d.out,
                      [addr |-> d.addr, type |-> type,
                       payload |-> SubSeq(d.buf, 2, Len(d.buf) - 1)])]
             ELSE d
    ELSE d

crsfFeed(d, b) ==
    CASE d.st = "A_WAIT" -> [d EXCEPT !.addr = b, !.st = "L_WAIT"]
      [] d.st = "L_WAIT" ->
           IF b < 2 THEN crsfReset([d EXCEPT !.len = b])
           ELSE [d EXCEPT !.len = b, !.buf = <<>>, !.cnt = 0, !.st = "BODY"]
      [] d.st = "BODY" ->
           LET d1 == [d EXCEPT !.buf = Append(d.buf, b), !.cnt = U8(d.cnt + 1)]
           IN  IF d1.cnt >= d1.len THEN crsfReset(crsfBodyComplete(d1)) ELSE d1

(***************************************************************************)
(* The inbound CRSF byte stream: free bytes, and scripted streams that     *)
(* hold a whole frame [addr, len, type, payload, CRC over type and         *)
(* payload], alone or behind line noise.                                   *)
(***************************************************************************)
CrsfBytes == {0, 1, 2, 3, 200, 213}

Crc8Table(data) == crc8(data, Len(data))

CrsfWireFrame(addr, type, payload, damage) ==
    <<addr, Len(payload) + 2, type>> \o payload
        \o <<BitXor(Crc8Table(<<type>> \o payload), damage)>>

CrsfNoise == {<<>>, <<255, 255>>, <<255>>, <<0>>, <<200>>, <<200, 1>>}

\* RC channels (type 0x16, 22 bytes), link statistics (type 0x14, 10 bytes), a
\* frame without payload, and a frame with a damaged CRC.
CrsfTraffic ==
    { [addr |-> 200, type |-> 22, payload |-> packChannels(c), damage |-> 0] :
          c \in { [i \in 1..16 |-> 992], [i \in 1..16 |-> 172 + 100 * i] } }
    \cup { [addr |-> 234, type |-> 20, payload |-> <<40, 50, 100, 10, 0, 3, 2, 60, 99, 7>>,
            damage |-> 0],
           [addr |-> 200, type |-> 58, payload |-> <<>>, damage |-> 0],
           [addr |-> 200, type |-> 22, payload |-> packChannels([i \in 1..16 |-> 992]),
            damage |-> 4] }

\* A scripted stream: line noise and the frame that follows it.
CrsfStreams == { [noise |-> n, frame |-> f] : n \in CrsfNoise, f \in CrsfTraffic }

CrsfStreamBytes(s) ==
    s.noise \o CrsfWireFrame(s.frame.addr, s.frame.type, s.frame.payload, s.frame.damage)

CrsfFeed(b) ==
    LET d == crsfFeed([cd EXCEPT !.out = <<>>], b)
    IN  /\ cd' = d
        /\ crsf_out' = d.out
        /\ crsf_emitted' = crsf_emitted \o d.out
        /\ crsf_raw' = IF cd.st = "A_WAIT" THEN <<b>> ELSE Append(crsf_raw, b)

\* A free byte arrives, before or after the scripted stream.
CrsfFeedGarbage ==
    /\ crsf_garbage < MaxCrsfGarbage
    /\ crsf_pending = <<>>
    /\ \E b \in CrsfBytes : CrsfFeed(b)
    /\ crsf_garbage' = crsf_garbage + 1
    /\ UNCHANGED <<crsf_script, crsf_pending>>
    /\ UNCHANGED <<mspVars, encVars, txVars, rsVars>>

\* The port starts to deliver a scripted stream; lead is the number of free
\* bytes the deframer was fed before it.
CrsfStartStream ==
    /\ crsf_script = <<>>
    /\ \E s \in CrsfStreams :
         /\ CrsfFeed(Head(CrsfStreamBytes(s)))
         /\ crsf_script' = <<[noise |-> s.noise, frame |-> s.frame,
                               lead |-> crsf_garbage]>>
         /\ crsf_pending' = Tail(CrsfStreamBytes(s))
    /\ UNCHANGED crsf_garbage
    /\ UNCHANGED <<mspVars, encVars, txVars, rsVars>>

CrsfFeedStreamByte ==
    /\ crsf_pending # <<>>
    /\ CrsfFeed(Head(crsf_pending))
    /\ crsf_pending' = Tail(crsf_pending)
    /\ UNCHANGED <<crsf_script, crsf_garbage>>
    /\ UNCHANGED <<mspVars, encVars, txVars, rsVars>>

CrsfIdle ==
    /\ cd = CrsfDeframerInit
    /\ crsf_out = <<>>
    /\ crsf_raw = <<>>
    /\ crsf_script = <<>>
    /\ crsf_pending = <<>>
    /\ crsf_emitted = <<>>
    /\ crsf_garbage = 0

CrsfInit == CrsfIdle

CrsfNext == CrsfFeedGarbage \/ CrsfStartStream \/ CrsfFeedStreamByte

(***************************************************************************)
(* TelemetryHandler::getLatestLinkStats called by the application thread   *)
(* while the reader thread feeds the parser.  The accessor returns a copy  *)
(* of latest_link_stats_ and takes no lock: its member-by-member copy runs *)
(* between the steps of the reader thread.                                 *)
(***************************************************************************)
\* getLatestLinkStats() is called.
LatestCall ==
    /\ latest_read.pc = "idle"
    /\ latest_read' = [NoLatestRead EXCEPT !.pc = "copy"]
    /\ UNCHANGED <<th, rs_spectrum, radio, rs_invoked, app, msp_out, msp_raw, msp_pending,
                   msp_done, msp_frames, msp_garbage>>
    /\ UNCHANGED <<crsfVars, encVars, txVars, rsVars>>

\* return latest_link_stats_: the next member is copied; after the last one
\* the copy is returned.
LatestCopy ==
    /\ latest_read.pc = "copy"
    /\ LET f == LinkStatsFields[latest_read.copied + 1]
       IN  latest_read' =
             [pc |-> IF latest_read.copied + 1 = Len(LinkStatsFields)
                     THEN "done" ELSE "copy",
              copied |-> latest_read.copied + 1,
              result |-> [latest_read.result EXCEPT ![f] = th.latest_link_stats[f]],
              during |-> latest_read.during \cup {th.latest_link_stats}]
    /\ UNCHANGED <<th, rs_spectrum, radio, rs_invoked, app, msp_out, msp_raw, msp_pending,
                   msp_done, msp_frames, msp_garbage>>
    /\ UNCHANGED <<crsfVars, encVars, txVars, rsVars>>

LatestNext == MspStartFrame \/ MspFeedFrameByte \/ LatestCall \/ LatestCopy

(***************************************************************************)
(* The encoder's frame on the deframer's input: the 26 bytes written by    *)
(* buildRcChannelsFrame are fed, one by one, to a CrsfDeframer in its      *)
(* initial state.                                                          *)
(***************************************************************************)
RoundInit ==
    /\ enc_channels \in ChannelArrays
    /\ enc_frame = <<>>
    /\ enc_msp_in = <<>>
    /\ enc_msp_out = <<>>
    /\ enc_msp_size = 0
    /\ map_inputs = <<>>
    /\ map_frame = <<>>
    /\ cast_nan = 0

\* The first byte of the frame reaches the deframer.
RoundFeedFrame ==
    /\ enc_frame # <<>>
    /\ crsf_script = <<>>
    /\ CrsfFeed(Head(enc_frame))
    /\ crsf_script' = <<[noise |-> <<>>, frame |-> enc_frame, lead |-> 0]>>
    /\ crsf_pending' = Tail(enc_frame)
    /\ UNCHANGED crsf_garbage
    /\ UNCHANGED <<mspVars, encVars, txVars, rsVars>>

RoundNext == EncBuildRcChannelsFrame \/ RoundFeedFrame \/ CrsfFeedStreamByte

(***************************************************************************)
(* ElrsTransmitter: control inputs and the channel frame.  Stick and       *)
(* throttle values are held in tenths: 10 stands for 1.0f.  The float NaN  *)
(* is held as the number NaN, which no finite input of the model takes.    *)
(***************************************************************************)
NaN == 32767

ControlInputs(roll, pitch, yaw, throttle, armed, mode1, mode2) ==
    [roll |-> roll, pitch |-> pitch, yaw |-> yaw, throttle |-> throttle,
     armed |-> armed, mode1 |-> mode1, mode2 |-> mode2]

\* Default member initialisers of struct ControlInputs.
ControlInputsInit == ControlInputs(0, 0, 0, 0, FALSE, FALSE, FALSE)

Clamp(x, lo, hi) == IF x < lo THEN lo ELSE IF x > hi THEN hi ELSE x

\* normalized = (stick + 1) / 2 clamped to [0, 1]; MIN + normalized * (MAX - MIN),
\* truncated by the cast to uint16_t.
\* Both comparisons of the clamp are false for NaN, the sum stays NaN, and
\* the conversion of NaN to uint16_t is undefined: it yields cast_nan.
mapStickToChannel(stick_value) ==
    IF stick_value = NaN THEN cast_nan
    ELSE CRSF_CHANNEL_VALUE_MIN
            + (Clamp(stick_value + 10, 0, 20)
                 * (CRSF_CHANNEL_VALUE_MAX - CRSF_CHANNEL_VALUE_MIN)) \div 20

mapThrottleToChannel(throttle_value) ==
    IF throttle_value = NaN THEN cast_nan
    ELSE CRSF_CHANNEL_VALUE_MIN
            + (Clamp(throttle_value, 0, 10)
                 * (CRSF_CHANNEL_VALUE_MAX - CRSF_CHANNEL_VALUE_MIN)) \div 10

Switch(on) == IF on THEN CRSF_CHANNEL_VALUE_MAX ELSE CRSF_CHANNEL_VALUE_MIN

\* buildChannelFrame applied to the snapshot getControlInputs() returned.
buildChannelFrame(inputs) ==
    buildRcChannelsFrame(
        << mapStickToChannel(inputs.roll),
           mapStickToChannel(inputs.pitch),
           mapThrottleToChannel(inputs.throttle),
           mapStickToChannel(inputs.yaw),
           Switch(inputs.armed), Switch(inputs.mode1), Switch(inputs.mode2) >>
        \o [i \in 1..9 |-> CRSF_CHANNEL_VALUE_MID])

(***************************************************************************)
(* The channel mapping applied to bounded inputs: stick and throttle       *)
(* values inside, at the ends of and outside their nominal range, and NaN. *)
(***************************************************************************)
MapStickValues == {-25, -10, 0, 10, 30, NaN}
MapThrottleValues == {-5, 0, 10, 15, NaN}

\* Results a build can give for the undefined conversion of NaN.
NanCasts == {0, 992, 65535}

MapInputs ==
    { ControlInputs(r, p, y, t, a, m1, m2) :
        r \in MapStickValues, p \in {-10, 0, NaN}, y \in {0, 10, 30},
        t \in MapThrottleValues, a \in BOOLEAN, m1 \in BOOLEAN, m2 \in BOOLEAN }

MapInit ==
    /\ enc_channels = <<>>
    /\ enc_frame = <<>>
    /\ enc_msp_in = <<>>
    /\ enc_msp_out = <<>>
    /\ enc_msp_size = 0
    /\ map_inputs \in MapInputs
    /\ map_frame = <<>>
    /\ cast_nan \in NanCasts

\* One call of buildChannelFrame on the inputs the transmitter holds.
MapBuildChannelFrame ==
    /\ map_frame = <<>>
    /\ map_frame' = buildChannelFrame(map_inputs)
    /\ UNCHANGED <<enc_channels, enc_frame, enc_msp_in, enc_msp_out, enc_msp_size, map_inputs,
                   cast_nan>>
    /\ UNCHANGED <<mspVars, crsfVars, txVars, rsVars>>

MapNext == MapBuildChannelFrame

(***************************************************************************)
(* Threads.  A thread object is "none" (not constructed), at a position of *)
(* its loop, "exited" (the loop returned, still joinable) or "joined".     *)
(***************************************************************************)
Callers == {"c1", "c2"}
ThreadObjects == {1, 2, 3}

\* write_failed: the write of the loop's last pass gave !write_success.
NoThread == [pc |-> "none", inputs |-> ControlInputsInit, clean |-> FALSE,
             write_failed |-> FALSE]
NoTelThread == [pc |-> "none"]

\* transmissionLoop's clock and local last_time, in ms; no loop on the clock.
NoSched == [pc |-> "none", now |-> 0, last_time |-> 0, deadline |-> 0, ticks |-> 0,
            started |-> 0, overrun |-> FALSE]

Joinable(t) == t.pc \notin {"none", "joined"}
Alive(t) == t.pc \notin {"none", "exited", "joined"}

\* The lowest thread object not in use.
FreeObject(loops) ==
    CHOOSE s \in ThreadObjects :
        /\ loops[s].pc = "none"
        /\ \A r \in ThreadObjects : loops[r].pc = "none" => s <= r

NoRequest == [name |-> "none", fn |-> 0, payload |-> <<>>]
NoArgs == [slot |-> 0, armed |-> FALSE, inputs |-> ControlInputsInit, req |-> NoRequest]

NoSend == [open |-> FALSE, wres |-> "-", written |-> <<>>]
CallerIdle == [pc |-> "idle", op |-> "none", arg |-> NoArgs, ret |-> "-", send |-> NoSend,
               lifecycle_calls |-> 0]

NoWrite == [by |-> "none", bytes |-> <<>>, clean |-> FALSE]

\* Values the application passes to setControlInputs.
InputValues ==
    { ControlInputs(0, 0, 0, 9, TRUE, FALSE, FALSE),
      ControlInputs(5, -5, 10, 3, TRUE, TRUE, TRUE),
      ControlInputs(-10, 0, 0, 0, FALSE, FALSE, TRUE) }

\* The requests of the MSP helpers, and one generic send.
MspSends ==
    { [name |-> "sendBindCommand", fn |-> 45, payload |-> <<238, 239, 0, 1>>],
      [name |-> "sendDeviceDiscovery", fn |-> 40, payload |-> <<0, 234>>],
      [name |-> "sendLinkStatsRequest", fn |-> 45, payload |-> <<238, 239, 0, 0>>],
      [name |-> "sendPowerIncrease", fn |-> 245, payload |-> <<1>>],
      [name |-> "sendPowerDecrease", fn |-> 245, payload |-> <<0>>],
      [name |-> "sendModelSelect", fn |-> 246, payload |-> <<3>>],
      [name |-> "sendMspCommand", fn |-> 1, payload |-> <<>>] }

Enter(c, op, pc, arg) ==
    callers' = [callers EXCEPT ![c] = [CallerIdle EXCEPT !.pc = pc, !.op = op, !.arg = arg,
                                         !.lifecycle_calls = callers[c].lifecycle_calls]]
Goto(c, pc) == callers' = [callers EXCEPT ![c].pc = pc]
\* A caller back from a call keeps the value the call returned.
Return(c, ret) ==
    callers' = [callers EXCEPT ![c] = [CallerIdle EXCEPT !.ret = ret,
                                         !.lifecycle_calls = callers[c].lifecycle_calls]]

\* A call of start() or stop() is counted when it is made.
EnterLifecycle(c, op, pc) ==
    callers' = [callers EXCEPT ![c] = [CallerIdle EXCEPT !.pc = pc, !.op = op,
                                         !.lifecycle_calls = callers[c].lifecycle_calls + 1]]
ReturnAtOnce(c, ret) ==
    callers' = [callers EXCEPT ![c] = [CallerIdle EXCEPT !.ret = ret,
                                         !.lifecycle_calls = callers[c].lifecycle_calls + 1]]

(***************************************************************************)
(* The bridge (UsbBridge, or SerialBridge in serial mode).                 *)
(***************************************************************************)
\* The outcomes of a write of the bridge: UsbBridge::write succeeds whenever
\* the device is connected; SerialBridge::write can also fail on an open port.
WriteOutcomes == IF ~connected THEN {FALSE}
                 ELSE IF using_serial_mode_ THEN {TRUE, FALSE} ELSE {TRUE}

NotConnectedError ==
    IF using_serial_mode_ THEN "Not connected to any COM port"
    ELSE "Not connected to any device"

\* write(): what it leaves in the bridge when its result is ok.
BridgeWrite(by, bytes, clean, ok) ==
    /\ wire' = IF ok THEN [by |-> by, bytes |-> bytes, clean |-> clean] ELSE wire
    /\ usb_last_error' = IF ~connected THEN NotConnectedError
                         ELSE IF ok THEN usb_last_error ELSE "write failed"

\* The application connects the device.
PortConnect ==
    /\ ~terminated
    /\ ~connected
    /\ connected' = TRUE
    /\ usb_last_error' = ""
    /\ UNCHANGED <<using_serial_mode_, running_, tx_thread_, tx_loops, tx_sched, tx_last_error,
                   tel_running, tel_thread, tel_loops, tel_last_error, control_inputs_,
                   inputs_mutex_, msp_last_error, callers, wire, estop_clean, terminated>>
    /\ UNCHANGED <<mspVars, crsfVars, encVars, rsVars>>
    /\ UNCHANGED stop_returned

\* The application disconnects the device, or it is unplugged.
PortDisconnect ==
    /\ ~terminated
    /\ connected
    /\ connected' = FALSE
    /\ UNCHANGED <<using_serial_mode_, usb_last_error, running_, tx_thread_, tx_loops, tx_sched,
                   tx_last_error, tel_running, tel_thread, tel_loops, tel_last_error,
                   control_inputs_, inputs_mutex_, msp_last_error, callers, wire,
                   estop_clean, terminated>>
    /\ UNCHANGED <<mspVars, crsfVars, encVars, rsVars>>
    /\ UNCHANGED stop_returned

\* What the steps of the facade leave alone, by group.
UnchangedBridge == UNCHANGED <<using_serial_mode_, connected, usb_last_error, wire>>
UnchangedTxThread == UNCHANGED <<running_, tx_thread_, tx_loops, tx_sched>>
UnchangedTelThread == UNCHANGED <<tel_running, tel_thread, tel_loops, tel_last_error>>
UnchangedInputs == UNCHANGED <<control_inputs_, inputs_mutex_, estop_clean>>
UnchangedWire == UNCHANGED <<mspVars, crsfVars, encVars, rsVars>>

\* Destruction of the thread object a unique_ptr owned: std::terminate when
\* the thread is still joinable.
DestroyTerminates(loops, t) == t # 0 /\ Joinable(loops[t])

(***************************************************************************)
(* ElrsTransmitter::start and TelemetryHandler::start.                     *)
(***************************************************************************)
\* start(): the call and its first test, if (running_.load()) return true.
StartCall(c) ==
    /\ ~terminated
    /\ callers[c].pc = "idle"
    /\ callers[c].lifecycle_calls < MaxLifecycleCalls
    /\ IF running_
       THEN ReturnAtOnce(c, "true")
       ELSE EnterLifecycle(c, "start", "start_connection")
    /\ UNCHANGED tx_last_error /\ UNCHANGED msp_last_error /\ UNCHANGED terminated
    /\ UnchangedBridge /\ UnchangedTxThread /\ UnchangedTelThread
    /\ UnchangedInputs /\ UnchangedWire
    /\ stop_returned' = FALSE

\* start(): the connection check of the mode.
StartConnection(c) ==
    /\ ~terminated
    /\ callers[c].pc = "start_connection"
    /\ IF ~connected
       THEN /\ tx_last_error' = IF using_serial_mode_
                                THEN "Serial device not connected"
                                ELSE "USB device not connected"
            /\ Return(c, "false")
       ELSE /\ Goto(c, "start_store")
            /\ UNCHANGED tx_last_error
    /\ UNCHANGED msp_last_error /\ UNCHANGED terminated
    /\ UnchangedBridge /\ UnchangedTxThread /\ UnchangedTelThread
    /\ UnchangedInputs /\ UnchangedWire
    /\ UNCHANGED stop_returned

\* start(): running_.store(true).
StartStore(c) ==
    /\ ~terminated
    /\ callers[c].pc = "start_store"
    /\ running_' = TRUE
    /\ Goto(c, "start_spawn")
    /\ UNCHANGED <<tx_thread_, tx_loops, tx_sched>>
    /\ UNCHANGED tx_last_error /\ UNCHANGED msp_last_error /\ UNCHANGED terminated
    /\ UnchangedBridge /\ UnchangedTelThread /\ UnchangedInputs /\ UnchangedWire
    /\ UNCHANGED stop_returned

\* start(): std::make_unique<std::thread>(transmissionLoop): the new thread runs.
StartSpawn(c) ==
    /\ ~terminated
    /\ UNCHANGED tx_sched
    /\ callers[c].pc = "start_spawn"
    /\ \E s \in ThreadObjects : tx_loops[s].pc = "none"
    /\ LET s == FreeObject(tx_loops)
       IN  /\ tx_loops' = [tx_loops EXCEPT ![s] = [NoThread EXCEPT !.pc = "while"]]
           /\ callers' = [callers EXCEPT ![c].pc = "start_assign", ![c].arg.slot = s]
    /\ UNCHANGED <<running_, tx_thread_>>
    /\ UNCHANGED tx_last_error /\ UNCHANGED msp_last_error /\ UNCHANGED terminated
    /\ UnchangedBridge /\ UnchangedTelThread /\ UnchangedInputs /\ UnchangedWire
    /\ UNCHANGED stop_returned

\* start(): tx_thread_ = the new thread object; the object tx_thread_ owned is
\* destroyed.  Then telemetry_handler_->start() when there is a handler.
StartAssign(c) ==
    /\ ~terminated
    /\ UNCHANGED tx_sched
    /\ callers[c].pc = "start_assign"
    /\ tx_thread_' = callers[c].arg.slot
    /\ IF DestroyTerminates(tx_loops, tx_thread_)
       THEN terminated' = TRUE /\ UNCHANGED tx_loops
       ELSE /\ UNCHANGED terminated
            /\ tx_loops' = IF tx_thread_ = 0 THEN tx_loops
                           ELSE [tx_loops EXCEPT ![tx_thread_] = NoThread]
    /\ IF using_serial_mode_
       THEN Return(c, "true")
       ELSE Goto(c, "tel_start")
    /\ UNCHANGED running_
    /\ UNCHANGED tx_last_error /\ UNCHANGED msp_last_error
    /\ UnchangedBridge /\ UnchangedTelThread /\ UnchangedInputs /\ UnchangedWire
    /\ UNCHANGED stop_returned

\* Return from TelemetryHandler::start or ::stop to its caller.
TelReturn(c) ==
    IF callers[c].op = "start" THEN Return(c, "true") ELSE Goto(c, "stop_join")

\* TelemetryHandler::start(): if (running_.load()) return.
TelStartCheck(c) ==
    /\ ~terminated
    /\ callers[c].pc = "tel_start"
    /\ IF tel_running THEN TelReturn(c) ELSE Goto(c, "tel_start_connection")
    /\ UNCHANGED tx_last_error /\ UNCHANGED msp_last_error /\ UNCHANGED terminated
    /\ UnchangedBridge /\ UnchangedTxThread /\ UnchangedTelThread
    /\ UnchangedInputs /\ UnchangedWire
    /\ UNCHANGED stop_returned

\* TelemetryHandler::start(): the connection check.
TelStartConnection(c) ==
    /\ ~terminated
    /\ callers[c].pc = "tel_start_connection"
    /\ IF ~connected
       THEN tel_last_error' = "USB device not connected" /\ TelReturn(c)
       ELSE UNCHANGED tel_last_error /\ Goto(c, "tel_start_store")
    /\ UNCHANGED <<tel_running, tel_thread, tel_loops>>
    /\ UNCHANGED tx_last_error /\ UNCHANGED msp_last_error /\ UNCHANGED terminated
    /\ UnchangedBridge /\ UnchangedTxThread /\ UnchangedInputs /\ UnchangedWire
    /\ UNCHANGED stop_returned

\* TelemetryHandler::start(): running_.store(true).
TelStartStore(c) ==
    /\ ~terminated
    /\ callers[c].pc = "tel_start_store"
    /\ tel_running' = TRUE
    /\ Goto(c, "tel_start_spawn")
    /\ UNCHANGED <<tel_thread, tel_loops, tel_last_error>>
    /\ UNCHANGED tx_last_error /\ UNCHANGED msp_last_error /\ UNCHANGED terminated
    /\ UnchangedBridge /\ UnchangedTxThread /\ UnchangedInputs /\ UnchangedWire
    /\ UNCHANGED stop_returned

\* TelemetryHandler::start(): the new thread runs telemetryLoop.
TelStartSpawn(c) ==
    /\ ~terminated
    /\ callers[c].pc = "tel_start_spawn"
    /\ \E s \in ThreadObjects : tel_loops[s].pc = "none"
    /\ LET s == FreeObject(tel_loops)
       IN  /\ tel_loops' = [tel_loops EXCEPT ![s] = [pc |-> "while"]]
           /\ callers' = [callers EXCEPT ![c].pc = "tel_start_assign", ![c].arg.slot = s]
    /\ UNCHANGED <<tel_running, tel_thread, tel_last_error>>
    /\ UNCHANGED tx_last_error /\ UNCHANGED msp_last_error /\ UNCHANGED terminated
    /\ UnchangedBridge /\ UnchangedTxThread /\ UnchangedInputs /\ UnchangedWire
    /\ UNCHANGED stop_returned

\* TelemetryHandler::start(): telemetry_thread_ = the new thread object.
TelStartAssign(c) ==
    /\ ~terminated
    /\ callers[c].pc = "tel_start_assign"
    /\ tel_thread' = callers[c].arg.slot
    /\ IF DestroyTerminates(tel_loops, tel_thread)
       THEN terminated' = TRUE /\ UNCHANGED tel_loops
       ELSE /\ UNCHANGED terminated
            /\ tel_loops' = IF tel_thread = 0 THEN tel_loops
                            ELSE [tel_loops EXCEPT ![tel_thread] = NoTelThread]
    /\ TelReturn(c)
    /\ UNCHANGED <<tel_running, tel_last_error>>
    /\ UNCHANGED tx_last_error /\ UNCHANGED msp_last_error
    /\ UnchangedBridge /\ UnchangedTxThread /\ UnchangedInputs /\ UnchangedWire
    /\ UNCHANGED stop_returned

(***************************************************************************)
(* ElrsTransmitter::stop and TelemetryHandler::stop.                       *)
(***************************************************************************)
\* stop(): the call and its first test, if (!running_.load()) return.
StopCall(c) ==
    /\ ~terminated
    /\ callers[c].pc = "idle"
    /\ callers[c].lifecycle_calls < MaxLifecycleCalls
    /\ IF ~running_
       THEN ReturnAtOnce(c, "-")
       ELSE EnterLifecycle(c, "stop", "stop_store")
    /\ UNCHANGED tx_last_error /\ UNCHANGED msp_last_error /\ UNCHANGED terminated
    /\ UnchangedBridge /\ UnchangedTxThread /\ UnchangedTelThread
    /\ UnchangedInputs /\ UnchangedWire
    /\ UNCHANGED stop_returned

\* stop(): running_.store(false).
StopStore(c) ==
    /\ ~terminated
    /\ callers[c].pc = "stop_store"
    /\ running_' = FALSE
    /\ Goto(c, "stop_telemetry")
    /\ UNCHANGED <<tx_thread_, tx_loops, tx_sched>>
    /\ UNCHANGED tx_last_error /\ UNCHANGED msp_last_error /\ UNCHANGED terminated
    /\ UnchangedBridge /\ UnchangedTelThread /\ UnchangedInputs /\ UnchangedWire
    /\ UNCHANGED stop_returned

\* stop(): telemetry_handler_->stop().  In serial mode telemetry_handler_ is
\* null and the call is undefined: the process faults, or the call has no
\* effect.
StopTelemetry(c) ==
    /\ ~terminated
    /\ callers[c].pc = "stop_telemetry"
    /\ IF using_serial_mode_
       THEN \/ terminated' = TRUE /\ UNCHANGED callers
            \/ UNCHANGED terminated /\ Goto(c, "stop_join")
       ELSE UNCHANGED terminated /\ Goto(c, "tel_stop")
    /\ UNCHANGED tx_last_error /\ UNCHANGED msp_last_error
    /\ UnchangedBridge /\ UnchangedTxThread /\ UnchangedTelThread
    /\ UnchangedInputs /\ UnchangedWire
    /\ UNCHANGED stop_returned

\* TelemetryHandler::stop(): if (!running_.load()) return.
TelStopCheck(c) ==
    /\ ~terminated
    /\ callers[c].pc = "tel_stop"
    /\ IF ~tel_running THEN TelReturn(c) ELSE Goto(c, "tel_stop_store")
    /\ UNCHANGED tx_last_error /\ UNCHANGED msp_last_error /\ UNCHANGED terminated
    /\ UnchangedBridge /\ UnchangedTxThread /\ UnchangedTelThread
    /\ UnchangedInputs /\ UnchangedWire
    /\ UNCHANGED stop_returned

\* TelemetryHandler::stop(): running_.store(false).
TelStopStore(c) ==
    /\ ~terminated
    /\ callers[c].pc = "tel_stop_store"
    /\ tel_running' = FALSE
    /\ Goto(c, "tel_stop_join")
    /\ UNCHANGED <<tel_thread, tel_loops, tel_last_error>>
    /\ UNCHANGED tx_last_error /\ UNCHANGED msp_last_error /\ UNCHANGED terminated
    /\ UnchangedBridge /\ UnchangedTxThread /\ UnchangedInputs /\ UnchangedWire
    /\ UNCHANGED stop_returned

\* TelemetryHandler::stop(): join the thread when there is a joinable one;
\* join returns when the loop has exited.
TelStopJoin(c) ==
    /\ ~terminated
    /\ callers[c].pc = "tel_stop_join"
    /\ IF tel_thread # 0 /\ Joinable(tel_loops[tel_thread])
       THEN /\ tel_loops[tel_thread].pc = "exited"
            /\ tel_loops' = [tel_loops EXCEPT ![tel_thread].pc = "joined"]
       ELSE UNCHANGED tel_loops
    /\ Goto(c, "tel_stop_reset")
    /\ UNCHANGED <<tel_running, tel_thread, tel_last_error>>
    /\ UNCHANGED tx_last_error /\ UNCHANGED msp_last_error /\ UNCHANGED terminated
    /\ UnchangedBridge /\ UnchangedTxThread /\ UnchangedInputs /\ UnchangedWire
    /\ UNCHANGED stop_returned

\* TelemetryHandler::stop(): telemetry_thread_.reset().
TelStopReset(c) ==
    /\ ~terminated
    /\ callers[c].pc = "tel_stop_reset"
    /\ tel_thread' = 0
    /\ IF DestroyTerminates(tel_loops, tel_thread)
       THEN terminated' = TRUE /\ UNCHANGED tel_loops
       ELSE /\ UNCHANGED terminated
            /\ tel_loops' = IF tel_thread = 0 THEN tel_loops
                            ELSE [tel_loops EXCEPT ![tel_thread] = NoTelThread]
    /\ TelReturn(c)
    /\ UNCHANGED <<tel_running, tel_last_error>>
    /\ UNCHANGED tx_last_error /\ UNCHANGED msp_last_error
    /\ UnchangedBridge /\ UnchangedTxThread /\ UnchangedInputs /\ UnchangedWire
    /\ UNCHANGED stop_returned

\* stop(): join the TX thread when there is a joinable one.
StopJoin(c) ==
    /\ ~terminated
    /\ UNCHANGED tx_sched
    /\ callers[c].pc = "stop_join"
    /\ IF tx_thread_ # 0 /\ Joinable(tx_loops[tx_thread_])
       THEN /\ tx_loops[tx_thread_].pc = "exited"
            /\ tx_loops' = [tx_loops EXCEPT ![tx_thread_].pc = "joined"]
       ELSE UNCHANGED tx_loops
    /\ Goto(c, "stop_reset")
    /\ UNCHANGED <<running_, tx_thread_>>
    /\ UNCHANGED tx_last_error /\ UNCHANGED msp_last_error /\ UNCHANGED terminated
    /\ UnchangedBridge /\ UnchangedTelThread /\ UnchangedInputs /\ UnchangedWire
    /\ UNCHANGED stop_returned

\* stop(): tx_thread_.reset(), and return.
StopReset(c) ==
    /\ ~terminated
    /\ UNCHANGED tx_sched
    /\ callers[c].pc = "stop_reset"
    /\ tx_thread_' = 0
    /\ IF DestroyTerminates(tx_loops, tx_thread_)
       THEN terminated' = TRUE /\ UNCHANGED tx_loops
       ELSE /\ UNCHANGED terminated
            /\ tx_loops' = IF tx_thread_ = 0 THEN tx_loops
                           ELSE [tx_loops EXCEPT ![tx_thread_] = NoThread]
    /\ Return(c, "-")
    /\ UNCHANGED running_
    /\ UNCHANGED tx_last_error /\ UNCHANGED msp_last_error
    /\ UnchangedBridge /\ UnchangedTelThread /\ UnchangedInputs /\ UnchangedWire
    /\ stop_returned' = TRUE

(***************************************************************************)
(* The setters of the control inputs, under inputs_mutex_.                 *)
(***************************************************************************)
UnchangedBySetter ==
    /\ UNCHANGED tx_last_error /\ UNCHANGED msp_last_error /\ UNCHANGED terminated
    /\ UnchangedBridge /\ UnchangedTxThread /\ UnchangedTelThread /\ UnchangedWire
    /\ UNCHANGED stop_returned

\* setControlInputs(inputs): the lock_guard is taken.
SetControlInputsLock(c) ==
    /\ ~terminated
    /\ callers[c].pc = "idle"
    /\ inputs_mutex_ = "free"
    /\ inputs_mutex_' = c
    /\ \E v \in InputValues : Enter(c, "setControlInputs", "set_inputs", [NoArgs EXCEPT !.inputs = v])
    /\ UNCHANGED <<control_inputs_, estop_clean>>
    /\ UnchangedBySetter

\* setControlInputs: control_inputs_ = inputs; the lock is released on return.
SetControlInputsWrite(c) ==
    /\ ~terminated
    /\ callers[c].pc = "set_inputs"
    /\ control_inputs_' = callers[c].arg.inputs
    /\ estop_clean' = FALSE
    /\ inputs_mutex_' = "free"
    /\ Return(c, "-")
    /\ UnchangedBySetter

\* setArmed(armed): the lock_guard is taken.
SetArmedLock(c) ==
    /\ ~terminated
    /\ callers[c].pc = "idle"
    /\ inputs_mutex_ = "free"
    /\ inputs_mutex_' = c
    /\ \E b \in BOOLEAN : Enter(c, "setArmed", "set_armed", [NoArgs EXCEPT !.armed = b])
    /\ UNCHANGED <<control_inputs_, estop_clean>>
    /\ UnchangedBySetter

\* setArmed: if (armed != control_inputs_.armed) control_inputs_.armed = armed.
SetArmedWrite(c) ==
    /\ ~terminated
    /\ callers[c].pc = "set_armed"
    /\ control_inputs_' = IF callers[c].arg.armed # control_inputs_.armed
                          THEN [control_inputs_ EXCEPT !.armed = callers[c].arg.armed]
                          ELSE control_inputs_
    /\ estop_clean' = FALSE
    /\ inputs_mutex_' = "free"
    /\ Return(c, "-")
    /\ UnchangedBySetter

\* emergencyStop(): the lock_guard is taken.
EmergencyStopLock(c) ==
    /\ ~terminated
    /\ callers[c].pc = "idle"
    /\ inputs_mutex_ = "free"
    /\ inputs_mutex_' = c
    /\ Enter(c, "emergencyStop", "estop_axes", NoArgs)
    /\ UNCHANGED <<control_inputs_, estop_clean>>
    /\ UnchangedBySetter

emergencyStopAxes_Mut(inputs) ==
    [inputs EXCEPT !.roll = 0, !.pitch = 0, !.yaw = 0]

\* emergencyStop: roll = pitch = yaw = throttle = 0.
emergencyStopAxes(inputs) ==
    [inputs EXCEPT !.roll = 0, !.pitch = 0, !.yaw = 0, !.throttle = 0]

\* emergencyStop: armed = mode1 = mode2 = false.
emergencyStopSwitches(inputs) ==
    [inputs EXCEPT !.armed = FALSE, !.mode1 = FALSE, !.mode2 = FALSE]

EmergencyStopAxes(c) ==
    /\ ~terminated
    /\ callers[c].pc = "estop_axes"
    /\ control_inputs_' = emergencyStopAxes(control_inputs_)
    /\ Goto(c, "estop_switches")
    /\ UNCHANGED <<inputs_mutex_, estop_clean>>
    /\ UnchangedBySetter

\* emergencyStop: the switches; the lock is released on return.
EmergencyStopSwitches(c) ==
    /\ ~terminated
    /\ callers[c].pc = "estop_switches"
    /\ control_inputs_' = emergencyStopSwitches(control_inputs_)
    /\ estop_clean' = TRUE
    /\ inputs_mutex_' = "free"
    /\ Return(c, "-")
    /\ UnchangedBySetter

(***************************************************************************)
(* isArmed(), defined in the class body: return control_inputs_.armed,     *)
(* with no lock taken.                                                     *)
(***************************************************************************)
IsArmedCall(c) ==
    /\ ~terminated
    /\ callers[c].pc = "idle"
    /\ Enter(c, "isArmed", "is_armed", NoArgs)
    /\ UNCHANGED <<control_inputs_, inputs_mutex_, estop_clean>>
    /\ UnchangedBySetter

\* What the read of control_inputs_.armed gives: the field, or, when it races
\* with a setter that holds inputs_mutex_ (a data race), either value.
armedRead == IF inputs_mutex_ = "free" THEN {control_inputs_.armed} ELSE BOOLEAN

IsArmedRead(c) ==
    /\ ~terminated
    /\ callers[c].pc = "is_armed"
    /\ \E armed \in armedRead : Return(c, IF armed THEN "armed" ELSE "not armed")
    /\ UNCHANGED <<control_inputs_, inputs_mutex_, estop_clean>>
    /\ UnchangedBySetter

(***************************************************************************)
(* MspCommands: the helpers and sendMspCommand.                            *)
(***************************************************************************)
sendMspNotConnected_Mut(is_connected) == FALSE

\* sendMspCommand: if (!usb_bridge_ || !usb_bridge_->isConnected()).
sendMspNotConnected(is_connected) == ~is_connected

\* A helper builds its payload and calls sendMspCommand, which tests the
\* connection: not connected, it records the error and returns false.
SendMspCall(c) ==
    /\ ~terminated
    /\ ~using_serial_mode_
    /\ callers[c].pc = "idle"
    /\ \E r \in MspSends :
         IF sendMspNotConnected(connected)
         THEN /\ msp_last_error' = "USB device not connected"
              /\ callers' = [callers EXCEPT ![c] =
                    [callers[c] EXCEPT !.ret = "false",
                                       !.send = [NoSend EXCEPT !.open = connected]]]
         ELSE /\ UNCHANGED msp_last_error
              /\ callers' = [callers EXCEPT ![c] =
                    [callers[c] EXCEPT !.pc = "msp_write", !.op = r.name,
                                       !.arg = [NoArgs EXCEPT !.req = r], !.ret = "-",
                                       !.send = [NoSend EXCEPT !.open = connected]]]
    /\ UNCHANGED tx_last_error /\ UNCHANGED terminated
    /\ UnchangedBridge /\ UnchangedTxThread /\ UnchangedTelThread
    /\ UnchangedInputs /\ UnchangedWire
    /\ UNCHANGED stop_returned

\* sendMspCommand: buildMspCommand and return usb_bridge_->write(frame).
SendMspWrite(c) ==
    /\ ~terminated
    /\ callers[c].pc = "msp_write"
    /\ LET r == callers[c].arg.req
           frame == buildMspCommand(r.fn, r.payload, Len(r.payload))
       IN  \E ok \in WriteOutcomes :
             /\ BridgeWrite(c, frame, FALSE, ok)
             /\ callers' = [callers EXCEPT ![c] =
                    [callers[c] EXCEPT
                       !.pc = "idle", !.op = "none", !.arg = NoArgs,
                       !.ret = IF ok THEN "true" ELSE "false",
                       !.send = [open |-> callers[c].send.open,
                                 wres |-> IF ok THEN "true" ELSE "false",
                                 written |-> IF ok THEN frame ELSE <<>>]]]
    /\ UNCHANGED <<using_serial_mode_, connected>>
    /\ UNCHANGED tx_last_error /\ UNCHANGED msp_last_error /\ UNCHANGED terminated
    /\ UnchangedTxThread /\ UnchangedTelThread /\ UnchangedInputs /\ UnchangedWire
    /\ UNCHANGED stop_returned

(***************************************************************************)
(* ElrsTransmitter::transmissionLoop, run by thread object s.              *)
(***************************************************************************)
UnchangedByLoop ==
    /\ UNCHANGED <<running_, tx_thread_, tx_sched, tx_last_error, msp_last_error, callers,
                   terminated>>
    /\ UnchangedTelThread /\ UnchangedWire
    /\ UNCHANGED stop_returned

\* while (running_.load()).
TxLoopWhile(s) ==
    /\ ~terminated
    /\ tx_loops[s].pc = "while"
    /\ tx_loops' = [tx_loops EXCEPT ![s] =
                       IF running_ THEN [tx_loops[s] EXCEPT !.pc = "connected"]
                       ELSE [NoThread EXCEPT !.pc = "exited"]]
    /\ UnchangedBridge /\ UnchangedInputs /\ UnchangedByLoop

\* The connection check; not connected: sleep 10 ms and continue.
TxLoopConnected(s) ==
    /\ ~terminated
    /\ tx_loops[s].pc = "connected"
    /\ tx_loops' = [tx_loops EXCEPT ![s].pc = IF connected THEN "build" ELSE "while"]
    /\ UnchangedBridge /\ UnchangedInputs /\ UnchangedByLoop

\* buildChannelFrame: getControlInputs() copies control_inputs_ under the lock.
TxLoopBuild(s) ==
    /\ ~terminated
    /\ tx_loops[s].pc = "build"
    /\ inputs_mutex_ = "free"
    /\ tx_loops' = [tx_loops EXCEPT ![s] = [pc |-> "write", inputs |-> control_inputs_,
                                            clean |-> estop_clean,
                                            write_failed |-> FALSE]]
    /\ UnchangedBridge /\ UnchangedInputs /\ UnchangedByLoop

\* A loop that gave up at its first failed write.
txLoopAfterWrite_Mut(write_success) == IF write_success THEN "while" ELSE "exited"

\* if (!write_success) only counts and prints: either way the loop sleeps
\* out its interval and goes back to the test of running_.
txLoopAfterWrite(write_success) == "while"

\* The frame of the snapshot is written to the bridge; then the loop sleeps
\* out the rest of its 4 ms interval.
TxLoopWrite(s) ==
    /\ ~terminated
    /\ tx_loops[s].pc = "write"
    /\ \E ok \in WriteOutcomes :
         /\ BridgeWrite("tx_loop", buildChannelFrame(tx_loops[s].inputs),
                        tx_loops[s].clean, ok)
         /\ tx_loops' = [tx_loops EXCEPT ![s] =
                            [NoThread EXCEPT !.pc = txLoopAfterWrite(ok),
                                             !.write_failed = ~ok]]
    /\ UNCHANGED <<using_serial_mode_, connected>>
    /\ UnchangedInputs /\ UnchangedByLoop

(***************************************************************************)
(* TelemetryHandler::telemetryLoop, run by thread object s.                *)
(***************************************************************************)
UnchangedByTelLoop ==
    /\ UNCHANGED <<running_, tx_thread_, tx_loops, tx_sched, tx_last_error, msp_last_error,
                   callers, terminated, tel_running, tel_thread, tel_last_error>>
    /\ UnchangedInputs
    /\ UNCHANGED stop_returned

\* while (running_.load()).
TelLoopWhile(s) ==
    /\ ~terminated
    /\ tel_loops[s].pc = "while"
    /\ tel_loops' = [tel_loops EXCEPT ![s].pc = IF tel_running THEN "connected" ELSE "exited"]
    /\ UnchangedBridge /\ UnchangedByTelLoop /\ UnchangedWire

\* The connection check; not connected: sleep 100 ms and continue.
TelLoopConnected(s) ==
    /\ ~terminated
    /\ tel_loops[s].pc = "connected"
    /\ tel_loops' = [tel_loops EXCEPT ![s].pc = IF connected THEN "read" ELSE "while"]
    /\ UnchangedBridge /\ UnchangedByTelLoop /\ UnchangedWire

\* UsbBridge::read gives the one byte 0xEE, or -1 when not connected; each
\* byte read is fed to the parser; then the loop sleeps 20 ms.
TelLoopRead(s) ==
    /\ ~terminated
    /\ tel_loops[s].pc = "read"
    /\ tel_loops' = [tel_loops EXCEPT ![s].pc = "while"]
    /\ IF connected
       THEN /\ \E fed \in {feedMspByte([th EXCEPT !.out = <<>>], 238)} :
               \E o \in {ApplyRadioCalls([r |-> radio, sp |-> rs_spectrum, inv |-> <<>>],
                                         fed.out, app, steady_clock)} :
                   /\ th' = fed
                   /\ msp_out' = fed.out
                   /\ rs_spectrum' = o.sp
                   /\ radio' = o.r
                   /\ rs_invoked' = o.inv
            /\ UNCHANGED usb_last_error
       ELSE /\ UNCHANGED <<th, msp_out, rs_spectrum, radio, rs_invoked>>
            /\ usb_last_error' = "Not connected to any device"
    /\ UNCHANGED <<app, msp_raw, msp_pending, msp_done, msp_frames, msp_garbage, latest_read>>
    /\ UNCHANGED <<using_serial_mode_, connected, wire>>
    /\ UNCHANGED <<crsfVars, encVars, rsVars>>
    /\ UnchangedByTelLoop

(***************************************************************************)
(* transmissionLoop on its clock: how the passes are paced.  Times are in  *)
(* ms of the loop's high_resolution_clock.                                 *)
(***************************************************************************)
\* auto target_interval = std::chrono::microseconds(4000): 4 ms = 250 Hz.
target_interval == 4

\* sleep_for(10 ms) of a pass that finds the bridge not connected.
NotConnectedSleep == 10

\* What buildChannelFrame and the write of one pass can take.
WorkTimes == {0, 1, 5}

\* By how much a sleep_for can return after the time asked for.
SleepLate == {0, 1}

UnchangedBySched ==
    /\ UNCHANGED <<using_serial_mode_, connected, usb_last_error, running_, tx_thread_,
                   tx_loops, tx_last_error, tel_running, tel_thread, tel_loops,
                   tel_last_error, control_inputs_, inputs_mutex_, msp_last_error,
                   callers, wire, estop_clean, terminated, stop_returned>>
    /\ UNCHANGED <<mspVars, crsfVars, encVars, rsVars>>

\* auto last_time = high_resolution_clock::now(), at the loop's entry.
SchedEnter ==
    /\ tx_sched.pc = "none"
    /\ tx_sched' = [NoSched EXCEPT !.pc = "while", !.last_time = tx_sched.now,
                                   !.started = tx_sched.now]
    /\ UnchangedBySched

\* while (running_.load()), the connection test and, on a connected bridge,
\* buildChannelFrame and the write; not connected: sleep 10 ms and continue.
SchedPass ==
    /\ tx_sched.pc = "while"
    /\ IF ~running_
       THEN tx_sched' = [tx_sched EXCEPT !.pc = "exited"]
       ELSE IF ~connected
       THEN \E late \in SleepLate :
              /\ tx_sched.now + NotConnectedSleep + late <= MaxSchedTime
              /\ tx_sched' = [tx_sched EXCEPT
                                !.now = @ + NotConnectedSleep + late,
                                !.overrun = TRUE]
       ELSE \E work \in WorkTimes :
              /\ tx_sched.now + work <= MaxSchedTime
              /\ tx_sched' = [tx_sched EXCEPT !.now = @ + work, !.pc = "pace"]
    /\ UnchangedBySched

\* now = clock::now(); elapsed = now - last_time; if (elapsed <
\* target_interval) sleep_for(target_interval - elapsed); last_time =
\* clock::now().  deadline is the time the pass asked to be woken at.
SchedPace ==
    /\ tx_sched.pc = "pace"
    /\ LET elapsed == tx_sched.now - tx_sched.last_time
       IN  \E late \in SleepLate :
             \E woken \in {IF elapsed < target_interval
                           THEN tx_sched.now + (target_interval - elapsed) + late
                           ELSE tx_sched.now} :
               /\ woken <= MaxSchedTime
               /\ tx_sched' = [tx_sched EXCEPT
                                 !.pc = "while",
                                 !.now = woken,
                                 !.last_time = woken,
                                 !.deadline = tx_sched.last_time + target_interval,
                                 !.ticks = @ + 1,
                                 !.overrun = @ \/ ~(elapsed < target_interval)]
    /\ UnchangedBySched

SchedNext == PortConnect \/ PortDisconnect \/ SchedEnter \/ SchedPass \/ SchedPace

(***************************************************************************)
(* The transmitter facade with its threads.                                *)
(***************************************************************************)
TxIdle ==
    /\ using_serial_mode_ = FALSE
    /\ connected = FALSE
    /\ usb_last_error = ""
    /\ running_ = FALSE
    /\ tx_thread_ = 0
    /\ tx_loops = [s \in ThreadObjects |-> NoThread]
    /\ tx_sched = NoSched
    /\ tx_last_error = ""
    /\ tel_running = FALSE
    /\ tel_thread = 0
    /\ tel_loops = [s \in ThreadObjects |-> NoTelThread]
    /\ tel_last_error = ""
    /\ control_inputs_ = ControlInputsInit
    /\ inputs_mutex_ = "free"
    /\ msp_last_error = ""
    /\ callers = [c \in Callers |-> CallerIdle]
    /\ wire = NoWrite
    /\ estop_clean = FALSE
    /\ terminated = FALSE
    /\ stop_returned = FALSE

\* After construction on either bridge, connected or not.
TxInit ==
    /\ using_serial_mode_ \in BOOLEAN
    /\ connected \in BOOLEAN
    /\ usb_last_error = ""
    /\ running_ = FALSE
    /\ tx_thread_ = 0
    /\ tx_loops = [s \in ThreadObjects |-> NoThread]
    /\ tx_sched = NoSched
    /\ tx_last_error = ""
    /\ tel_running = FALSE
    /\ tel_thread = 0
    /\ tel_loops = [s \in ThreadObjects |-> NoTelThread]
    /\ tel_last_error = ""
    /\ control_inputs_ = ControlInputsInit
    /\ inputs_mutex_ = "free"
    /\ msp_last_error = ""
    /\ callers = [c \in Callers |-> CallerIdle]
    /\ wire = NoWrite
    /\ estop_clean = FALSE
    /\ terminated = FALSE
    /\ stop_returned = FALSE

Lifecycle(c) ==
    \/ StartCall(c) \/ StartConnection(c) \/ StartStore(c) \/ StartSpawn(c)
    \/ StartAssign(c)
    \/ TelStartCheck(c) \/ TelStartConnection(c) \/ TelStartStore(c)
    \/ TelStartSpawn(c) \/ TelStartAssign(c)
    \/ StopCall(c) \/ StopStore(c) \/ StopTelemetry(c)
    \/ TelStopCheck(c) \/ TelStopStore(c) \/ TelStopJoin(c) \/ TelStopReset(c)
    \/ StopJoin(c) \/ StopReset(c)

\* stop() alone, with the stop() of the telemetry handler it calls.
Stops(c) ==
    \/ StopCall(c) \/ StopStore(c) \/ StopTelemetry(c)
    \/ TelStopCheck(c) \/ TelStopStore(c) \/ TelStopJoin(c) \/ TelStopReset(c)
    \/ StopJoin(c) \/ StopReset(c)

Setters(c) ==
    \/ SetControlInputsLock(c) \/ SetControlInputsWrite(c)
    \/ SetArmedLock(c) \/ SetArmedWrite(c)
    \/ EmergencyStopLock(c) \/ EmergencyStopAxes(c) \/ EmergencyStopSwitches(c)

Getters(c) == IsArmedCall(c) \/ IsArmedRead(c)

Sends(c) == SendMspCall(c) \/ SendMspWrite(c)

TxLoop(s) ==
    TxLoopWhile(s) \/ TxLoopConnected(s) \/ TxLoopBuild(s) \/ TxLoopWrite(s)

TelLoop(s) == TelLoopWhile(s) \/ TelLoopConnected(s) \/ TelLoopRead(s)

\* After start() returned true on a connected USB bridge: both loops run.
TxStarted ==
    /\ using_serial_mode_ = FALSE
    /\ connected = TRUE
    /\ usb_last_error = ""
    /\ running_ = TRUE
    /\ tx_thread_ = 1
    /\ tx_sched = NoSched
    /\ tx_loops = [s \in ThreadObjects |-> IF s = 1 THEN [NoThread EXCEPT !.pc = "while"]
                                            ELSE NoThread]
    /\ tx_last_error = ""
    /\ tel_running = TRUE
    /\ tel_thread = 1
    /\ tel_loops = [s \in ThreadObjects |-> IF s = 1 THEN [pc |-> "while"]
                                             ELSE NoTelThread]
    /\ tel_last_error = ""
    /\ control_inputs_ = ControlInputsInit
    /\ inputs_mutex_ = "free"
    /\ msp_last_error = ""
    /\ callers = [c \in Callers |-> IF c = "c1"
                                     THEN [CallerIdle EXCEPT !.ret = "true",
                                                             !.lifecycle_calls = 1]
                                     ELSE CallerIdle]
    /\ wire = NoWrite
    /\ estop_clean = FALSE
    /\ terminated = FALSE
    /\ stop_returned = FALSE

\* Application threads start and stop the transmitter.
LifeNext ==
    \/ PortConnect \/ PortDisconnect
    \/ \E c \in Callers : Lifecycle(c)
    \/ \E s \in ThreadObjects : TxLoop(s) \/ TelLoop(s)

\* Application threads set the control inputs while the TX loop runs.
CtlNext ==
    \/ PortConnect \/ PortDisconnect
    \/ \E c \in Callers : Setters(c)
    \/ \E s \in ThreadObjects : TxLoop(s)

\* Application threads set and read the control inputs while the TX loop runs.
GetNext ==
    \/ \E c \in Callers : Setters(c) \/ Getters(c)
    \/ \E s \in ThreadObjects : TxLoop(s)

\* Application threads send MSP commands while the device comes and goes.
SendNext ==
    \/ PortConnect \/ PortDisconnect
    \/ \E c \in Callers : Sends(c)

\* Both loops run while the device comes and goes, until stop() is called.
LoopNext ==
    \/ PortConnect \/ PortDisconnect
    \/ \E c \in Callers : Stops(c)
    \/ \E s \in ThreadObjects : TxLoop(s) \/ TelLoop(s)

\* Application threads send MSP commands while the TX loop runs.
WireNext ==
    \/ PortConnect \/ PortDisconnect
    \/ \E c \in Callers : Sends(c)
    \/ \E s \in ThreadObjects : TxLoop(s)

(***************************************************************************)
(* RadioState called from two threads: the telemetry thread writes, the UI *)
(* thread subscribes and reads.  A call is a step that enters, a step that *)
(* takes state_mutex_, one step per statement of the body, and a step that *)
(* releases the mutex and returns.                                         *)
(***************************************************************************)
RsThreads == {"telemetry", "ui"}
Callbacks == {"A", "B"}

\* What an accessor returned: the vector, or the one LiveTelemetry copied.
NoResult == <<>>

RsIdleThread ==
    [pc |-> "idle", op |-> "none", arg |-> NoRadioArgs, i |-> 0, notified |-> <<>>,
     result |-> NoResult, expect |-> "any", calls |-> 0]

UpdateOps ==
    {"updateTelemetry", "updateRSSI", "updateLinkQuality", "updateTxPower",
     "updatePacketStats", "updateBattery", "updateTemperature", "updateSpectrumData"}

MutationOps == UpdateOps \cup {"resetStatistics", "markSystemReady"}

SubscriptionOps == {"subscribeToChanges", "unsubscribeFromChanges"}

AccessorOps ==
    {"getLiveTelemetry", "getRSSIHistory", "getLinkQualityHistory",
     "getTxPowerHistory", "getSpectrumData"}

\* The calls the telemetry thread makes, and those the UI thread makes.
TelemetrySample ==
    [LiveTelemetryInit EXCEPT !.rssi1 = -70, !.rssi2 = -75, !.linkQuality = 95,
                              !.snr = 8, !.txPower = 25]

RadioCalls(t) ==
    IF t = "telemetry"
    THEN { [op |-> "updateTelemetry",
            arg |-> [NoRadioArgs EXCEPT !.telemetry = <<TelemetrySample>>]],
           [op |-> "updateRSSI", arg |-> [NoRadioArgs EXCEPT !.a = -92, !.b = -90]],
           [op |-> "updateLinkQuality", arg |-> [NoRadioArgs EXCEPT !.a = 150]],
           [op |-> "updateTxPower", arg |-> [NoRadioArgs EXCEPT !.a = 20]],
           [op |-> "updatePacketStats", arg |-> [NoRadioArgs EXCEPT !.a = 7, !.b = 9]],
           [op |-> "updateBattery", arg |-> [NoRadioArgs EXCEPT !.a = 12000, !.b = 500]],
           [op |-> "updateTemperature", arg |-> [NoRadioArgs EXCEPT !.a = 35]],
           [op |-> "updateSpectrumData", arg |-> NoRadioArgs],
           [op |-> "updateSpectrumData", arg |-> [NoRadioArgs EXCEPT !.data = <<3, 4>>]],
           [op |-> "resetStatistics", arg |-> NoRadioArgs],
           [op |-> "markSystemReady", arg |-> NoRadioArgs] }
    ELSE { [op |-> "subscribeToChanges", arg |-> [NoRadioArgs EXCEPT !.callback = cb]] :
             cb \in Callbacks }
         \cup { [op |-> "unsubscribeFromChanges", arg |-> NoRadioArgs] }
         \cup { [op |-> g, arg |-> [NoRadioArgs EXCEPT !.a = 1]] : g \in AccessorOps }

MaxRadioCalls(t) == IF t = "telemetry" THEN MaxUpdateCalls ELSE MaxUiCalls

\* The lock_guard at the head of an operation; markSystemReady has none.
TakesLock(op) == op # "markSystemReady"

\* std::vector<int>(history.end() - maxPoints, history.end()), or all of it.
lastPoints(history, maxPoints) ==
    IF Len(history) <= maxPoints THEN history
    ELSE SubSeq(history, Len(history) - maxPoints + 1, Len(history))

\* What a snapshot accessor returns when it reads the object o.
Snapshot(o, op, arg) ==
    CASE op = "getLiveTelemetry" -> <<o.r.live_telemetry_>>
      [] op = "getRSSIHistory" -> lastPoints(o.r.rssi_history_, arg.a)
      [] op = "getLinkQualityHistory" -> lastPoints(o.r.link_quality_history_, arg.a)
      [] op = "getTxPowerHistory" -> lastPoints(o.r.tx_power_history_, arg.a)
      [] op = "getSpectrumData" -> o.sp

\* A subscription call is under way on some thread.
Subscribing == \E u \in RsThreads : rs_threads[u].op \in SubscriptionOps

Histories == {"rssi_history_", "link_quality_history_", "tx_power_history_"}

UnchangedByRadioButFault ==
    UNCHANGED <<th, rs_invoked, app, msp_out, msp_raw, msp_pending, msp_done,
                msp_frames, msp_garbage, latest_read, crsfVars, encVars, hist_log,
                using_serial_mode_, connected, usb_last_error, running_, tx_thread_,
                tx_loops, tx_sched, tx_last_error, tel_running, tel_thread, tel_loops,
                tel_last_error, control_inputs_, inputs_mutex_, msp_last_error,
                callers, wire, estop_clean, stop_returned>>

\* A thread enters an operation.  A subscription call that starts while a
\* mutation is under way may or may not be the one that mutation sees.
RsCall(t) ==
    /\ ~terminated
    /\ rs_threads[t].pc = "idle"
    /\ rs_threads[t].calls < MaxRadioCalls(t)
    /\ \E call \in RadioCalls(t) :
         rs_threads' =
           [u \in RsThreads |->
              IF u = t
              THEN [RsIdleThread EXCEPT
                      !.pc = IF ReturnsEarly(call.op, call.arg) THEN "return"
                             ELSE IF TakesLock(call.op) THEN "lock" ELSE "body",
                      !.op = call.op, !.arg = call.arg, !.i = 1,
                      !.expect = IF Subscribing THEN "any"
                                 ELSE rs_committed.r.state_change_callback_,
                      !.calls = rs_threads[t].calls + 1]
              ELSE IF call.op \in SubscriptionOps
                   THEN [rs_threads[u] EXCEPT !.expect = "any"]
                   ELSE rs_threads[u]]
    /\ UNCHANGED <<radio, rs_spectrum, state_mutex_, rs_committed, steady_clock>>
    /\ UNCHANGED terminated
    /\ UnchangedByRadioButFault

\* The accessor's lock_guard dropped: it reads without waiting for the mutex.
lockAcquired_Mut(op, holder) == holder = "free" \/ op \in AccessorOps

\* std::lock_guard<std::mutex> lock(state_mutex_) returns once the mutex is free.
lockAcquired(op, holder) == holder = "free"

RsLock(t) ==
    /\ ~terminated
    /\ rs_threads[t].pc = "lock"
    /\ lockAcquired(rs_threads[t].op, state_mutex_)
    /\ state_mutex_' = IF state_mutex_ = "free" THEN t ELSE state_mutex_
    /\ rs_threads' = [rs_threads EXCEPT
                        ![t].pc = IF rs_threads[t].op \in AccessorOps
                                  THEN "read" ELSE "body"]
    /\ UNCHANGED <<radio, rs_spectrum, rs_committed, steady_clock>>
    /\ UNCHANGED terminated
    /\ UnchangedByRadioButFault

\* notifyStateChange outside the mutex reads the slot while a subscription
\* call on another thread may be writing it.
RacingNotify(t) ==
    /\ ~TakesLock(rs_threads[t].op)
    /\ \E u \in RsThreads \ {t} : rs_threads[u].op \in SubscriptionOps

Advance(t, inv) ==
    rs_threads' = [rs_threads EXCEPT
                     ![t].notified = inv,
                     ![t].i = rs_threads[t].i + 1,
                     ![t].pc = IF rs_threads[t].i + 1
                                   > Len(Body(rs_threads[t].op, rs_threads[t].arg))
                               THEN "return" ELSE "body"]

\* The next statement of the body.
RsStatement(t) ==
    /\ ~terminated
    /\ rs_threads[t].pc = "body"
    /\ LET st == Body(rs_threads[t].op, rs_threads[t].arg)[rs_threads[t].i]
           o == [r |-> radio, sp |-> rs_spectrum, inv |-> rs_threads[t].notified]
       IN  IF st.k = "notify" /\ RacingNotify(t)
           THEN \E seen \in Callbacks \cup {"null", "fault"} :
                  /\ terminated' = (seen = "fault")
                  /\ Advance(t, IF seen \in Callbacks
                                THEN Append(o.inv, seen) ELSE o.inv)
                  /\ UNCHANGED <<radio, rs_spectrum>>
           ELSE LET o1 == Exec(o, st, steady_clock)
                IN  /\ radio' = o1.r
                    /\ rs_spectrum' = o1.sp
                    /\ Advance(t, o1.inv)
                    /\ UNCHANGED terminated
    /\ UNCHANGED <<state_mutex_, rs_committed, steady_clock>>
    /\ UnchangedByRadioButFault

\* The accessor copies what it returns.
RsRead(t) ==
    /\ ~terminated
    /\ rs_threads[t].pc = "read"
    /\ rs_threads' = [rs_threads EXCEPT
                        ![t].result = Snapshot([r |-> radio, sp |-> rs_spectrum],
                                               rs_threads[t].op, rs_threads[t].arg),
                        ![t].pc = "return"]
    /\ UNCHANGED <<radio, rs_spectrum, state_mutex_, rs_committed, steady_clock>>
    /\ UNCHANGED terminated
    /\ UnchangedByRadioButFault

\* The operation returns: the lock_guard, if any, releases the mutex.
RsReturn(t) ==
    /\ ~terminated
    /\ rs_threads[t].pc = "return"
    /\ state_mutex_' = IF state_mutex_ = t THEN "free" ELSE state_mutex_
    /\ rs_committed' =
         IF ReturnsEarly(rs_threads[t].op, rs_threads[t].arg)
            \/ rs_threads[t].op \in AccessorOps
         THEN rs_committed
         ELSE IF TakesLock(rs_threads[t].op)
              THEN [r |-> radio, sp |-> rs_spectrum,
                    replaced |-> IF rs_threads[t].op \in SubscriptionOps
                                 THEN rs_committed.r.state_change_callback_
                                 ELSE rs_committed.replaced]
              ELSE [rs_committed EXCEPT !.r.system_ready_ = radio.system_ready_]
    /\ rs_threads' = [rs_threads EXCEPT
                        ![t] = [RsIdleThread EXCEPT !.calls = rs_threads[t].calls]]
    /\ UNCHANGED <<radio, rs_spectrum, steady_clock>>
    /\ UNCHANGED terminated
    /\ UnchangedByRadioButFault

\* Time passes.
Tick ==
    /\ ~terminated
    /\ steady_clock < MaxTicks * TickMs
    /\ steady_clock' = steady_clock + TickMs
    /\ UNCHANGED <<radio, rs_spectrum, state_mutex_, rs_committed, rs_threads>>
    /\ UNCHANGED terminated
    /\ UnchangedByRadioButFault

RsIdle ==
    /\ steady_clock = 0
    /\ state_mutex_ = "free"
    /\ rs_threads = [t \in RsThreads |-> RsIdleThread]
    /\ rs_committed = [r |-> RadioStateInit, sp |-> <<>>, replaced |-> "null"]
    /\ hist_log = [log |-> [h \in Histories |-> <<>>], targeted |-> 0]

RadioThread(t) == RsCall(t) \/ RsLock(t) \/ RsStatement(t) \/ RsRead(t) \/ RsReturn(t)

RadioNext == Tick \/ \E t \in RsThreads : RadioThread(t)

(***************************************************************************)
(* RadioState with an observer that reads: the subscribed callback calls   *)
(* getLiveTelemetry from inside the notification, on the notifying thread. *)
(***************************************************************************)
\* The callback's accessor constructs its lock_guard on state_mutex_ while
\* the thread that runs it already owns the mutex.  Locking a std::mutex the
\* caller owns is undefined: the thread waits for itself for ever, or the
\* lock throws through the callback and ends the process.
SelfLockOutcomes == {"blocked", "faulted"}

\* The statement is the notification, a callback is subscribed, and the
\* notifying operation holds the mutex.
NotifiesUnderLock(t) ==
    /\ Body(rs_threads[t].op, rs_threads[t].arg)[rs_threads[t].i].k = "notify"
    /\ radio.state_change_callback_ # "null"
    /\ state_mutex_ = t

\* The next statement of the body, the observer's read included.  Under
\* markSystemReady, which holds no mutex, the accessor waits until the mutex
\* is free, copies and returns.
ObsStatement(t) ==
    /\ rs_threads[t].pc = "body"
    /\ IF NotifiesUnderLock(t)
       THEN /\ ~terminated
            /\ \E outcome \in SelfLockOutcomes :
                 /\ rs_threads' = [rs_threads EXCEPT ![t].pc = outcome]
                 /\ terminated' = (outcome = "faulted")
            /\ UNCHANGED <<radio, rs_spectrum, state_mutex_, rs_committed, steady_clock>>
            /\ UnchangedByRadioButFault
       ELSE /\ ( /\ Body(rs_threads[t].op, rs_threads[t].arg)[rs_threads[t].i].k = "notify"
                 /\ radio.state_change_callback_ # "null" )
               => state_mutex_ = "free"
            /\ RsStatement(t)

ObsThread(t) == RsCall(t) \/ RsLock(t) \/ ObsStatement(t) \/ RsRead(t) \/ RsReturn(t)

ObsNext == \E t \in RsThreads : ObsThread(t)

(***************************************************************************)
(* RadioState fed a long run of telemetry by one thread.  Every appended   *)
(* value carries its arrival index in its history, so that the order of    *)
(* the entries and the entry an eviction removes can be told.              *)
(***************************************************************************)
Tag(n) == n % 101

NextTag(h) == Tag(Len(hist_log.log[h]) + 1)

\* The values a call of op appends to history h, in order.
RECURSIVE AppendedFrom(_, _, _)
AppendedFrom(body, i, h) ==
    IF i > Len(body) THEN <<>>
    ELSE (IF body[i].k = "history" /\ body[i].f = h THEN <<body[i].v>> ELSE <<>>)
         \o AppendedFrom(body, i + 1, h)

Clears(op, arg) == \E i \in 1..Len(Body(op, arg)) : Body(op, arg)[i].k = "clear"

HistCall(op, arg, targeted) ==
    /\ ~terminated
    /\ \A u \in RsThreads : rs_threads[u].pc = "idle"
    /\ \A h \in Histories :
         Len(hist_log.log[h]) + Len(AppendedFrom(Body(op, arg), 1, h)) <= MaxHistoryAppends
    /\ hist_log.targeted + targeted <= MaxSingleAppends
    /\ LET o == Call([r |-> radio, sp |-> rs_spectrum, inv |-> <<>>], op, arg,
                     steady_clock)
       IN  /\ radio' = o.r
           /\ rs_spectrum' = o.sp
           /\ rs_committed' = [rs_committed EXCEPT !.r = o.r, !.sp = o.sp]
    /\ hist_log' =
         [log |-> [h \in Histories |->
                     IF Clears(op, arg) THEN <<>>
                     ELSE hist_log.log[h] \o AppendedFrom(Body(op, arg), 1, h)],
          targeted |-> hist_log.targeted + targeted]
    /\ UNCHANGED <<state_mutex_, rs_threads, steady_clock>>
    /\ UNCHANGED <<th, rs_invoked, app, msp_out, msp_raw, msp_pending, msp_done,
                   msp_frames, msp_garbage, latest_read, crsfVars, encVars, txVars>>

HistUpdateTelemetry ==
    HistCall("updateTelemetry",
             [NoRadioArgs EXCEPT
                !.telemetry = << [radio.live_telemetry_ EXCEPT
                                    !.rssi1 = NextTag("rssi_history_"),
                                    !.linkQuality = NextTag("link_quality_history_"),
                                    !.txPower = NextTag("tx_power_history_")] >>], 0)

HistUpdateRSSI ==
    HistCall("updateRSSI",
             [NoRadioArgs EXCEPT !.a = NextTag("rssi_history_"), !.b = -120], 1)

HistUpdateLinkQuality ==
    HistCall("updateLinkQuality",
             [NoRadioArgs EXCEPT !.a = NextTag("link_quality_history_")], 1)

HistUpdateTxPower ==
    HistCall("updateTxPower",
             [NoRadioArgs EXCEPT !.a = NextTag("tx_power_history_")], 1)

HistResetStatistics == HistCall("resetStatistics", NoRadioArgs, 1)

HistNext ==
    \/ HistUpdateTelemetry \/ HistUpdateRSSI \/ HistUpdateLinkQuality
    \/ HistUpdateTxPower \/ HistResetStatistics

(***************************************************************************)
(* Specifications.                                                         *)
(***************************************************************************)
\* The telemetry handler fed an inbound byte stream.
InitMsp == MspInit /\ CrsfIdle /\ EncIdle /\ TxIdle /\ RsIdle
SpecMsp == InitMsp /\ [][MspNext]_vars

\* The CRSF deframer fed an inbound byte stream.
InitCrsf == CrsfInit /\ MspIdle /\ EncIdle /\ TxIdle /\ RsIdle
SpecCrsf == InitCrsf /\ [][CrsfNext]_vars

\* The MSP parser fed frames that declare more than 128 payload bytes.
InitBuf == MspInit /\ CrsfIdle /\ EncIdle /\ TxIdle /\ RsIdle
SpecBuf == InitBuf /\ [][BufNext]_vars

\* The encoders applied to bounded inputs.
InitEnc == EncInit /\ MspIdle /\ CrsfIdle /\ TxIdle /\ RsIdle
SpecEnc == InitEnc /\ [][EncNext]_vars

\* The channel mapping applied to bounded control inputs.
InitMap == MapInit /\ MspIdle /\ CrsfIdle /\ TxIdle /\ RsIdle
SpecMap == InitMap /\ [][MapNext]_vars

\* The transmitter facade called by application threads, with its loops.
InitLife == TxInit /\ MspIdle /\ CrsfIdle /\ EncIdle /\ RsIdle
SpecLife == InitLife /\ [][LifeNext]_vars

\* The control inputs set by application threads under a running TX loop.
InitCtl == TxStarted /\ MspIdle /\ CrsfIdle /\ EncIdle /\ RsIdle
SpecCtl == InitCtl /\ [][CtlNext]_vars

\* MSP commands sent by application threads.
InitSend == TxInit /\ ~using_serial_mode_ /\ MspIdle /\ CrsfIdle /\ EncIdle /\ RsIdle
SpecSend == InitSend /\ [][SendNext]_vars

\* The control inputs set and read by application threads under a running
\* TX loop.
InitGet == TxStarted /\ MspIdle /\ CrsfIdle /\ EncIdle /\ RsIdle
SpecGet == InitGet /\ [][GetNext]_vars

\* The running loops of a started transmitter, up to stop().
InitLoop == TxStarted /\ MspIdle /\ CrsfIdle /\ EncIdle /\ RsIdle
SpecLoop == InitLoop /\ [][LoopNext]_vars

\* MSP commands sent by application threads under a running TX loop.
InitWire == TxStarted /\ MspIdle /\ CrsfIdle /\ EncIdle /\ RsIdle
SpecWire == InitWire /\ [][WireNext]_vars

\* The telemetry handler wired to RadioState by an application, fed an
\* inbound byte stream.
InitTel == TelInit /\ CrsfIdle /\ EncIdle /\ TxIdle /\ RsIdle
SpecTel == InitTel /\ [][MspNext]_vars

\* RadioState written by the telemetry thread, subscribed and read by the UI.
InitRadio == RsIdle /\ MspIdle /\ CrsfIdle /\ EncIdle /\ TxIdle
SpecRadio == InitRadio /\ [][RadioNext]_vars

\* buildMspCommand applied to requests of every payload size.
InitFrame == FrameInit /\ MspIdle /\ CrsfIdle /\ TxIdle /\ RsIdle
SpecFrame == InitFrame /\ [][FrameNext]_vars

\* A built RC-channels frame fed to the CRSF deframer.
InitRound == RoundInit /\ MspIdle /\ CrsfIdle /\ TxIdle /\ RsIdle
SpecRound == InitRound /\ [][RoundNext]_vars

\* The TX loop of a started transmitter, followed on its clock.
InitSched == TxStarted /\ MspIdle /\ CrsfIdle /\ EncIdle /\ RsIdle
SpecSched == InitSched /\ [][SchedNext]_vars

\* The latest link stats read by the application while frames arrive.
InitLatest == TelInit /\ CrsfIdle /\ EncIdle /\ TxIdle /\ RsIdle
SpecLatest == InitLatest /\ [][LatestNext]_vars

\* RadioState with a subscribed observer that reads it.
InitObs == RsIdle /\ MspIdle /\ CrsfIdle /\ EncIdle /\ TxIdle
SpecObs == InitObs /\ [][ObsNext]_vars

\* RadioState fed a run of telemetry long enough to fill the histories.
InitHist == RsIdle /\ MspIdle /\ CrsfIdle /\ EncIdle /\ TxIdle
SpecHist == InitHist /\ [][HistNext]_vars

(***************************************************************************)
(* Properties of the MSP deframer.                                         *)
(***************************************************************************)
\* The bytes are one whole inbound frame: $ M > len function payload[len] and
\* a trailing byte equal to the XOR of len, function and the payload bytes.
MspRawIsValidReply(raw) ==
    /\ Len(raw) >= 6
    /\ raw[1] = 36 /\ raw[2] = 77 /\ raw[3] = 62
    /\ Len(raw) = raw[4] + 6
    /\ raw[Len(raw)] = XorAll(SubSeq(raw, 4, Len(raw) - 1))

\* C1: a step of the deframer reaches the typed handlers (the function switch,
\* a callback, RadioState, or a change of the latest link stats, battery or
\* spectrum) only if the bytes consumed since Idle are a whole frame with
\* direction '>' whose trailing byte is the XOR of len, function and payload.
C1_DispatchOnlyValidDeviceFrames ==
    [][ ( \/ msp_out' # <<>>
          \/ th'.latest_link_stats # th.latest_link_stats
          \/ th'.latest_battery # th.latest_battery
          \/ th'.latest_spectrum # th.latest_spectrum
          \/ rs_spectrum' # rs_spectrum )
        => MspRawIsValidReply(msp_raw') ]_vars

\* C1 witness: a link-stats reply arrived after free bytes and was published
\* to the callback.
C1_Witness ==
    /\ msp_garbage > 0
    /\ th.latest_link_stats.valid
    /\ \E i \in 1..Len(msp_out) : msp_out[i].kind = "link_stats_callback"

\* C3: resynchronisation. Every valid $M> frame of a stream of valid frames
\* separated by free bytes is dispatched: when its last byte has been fed, the
\* frame has reached the function switch.
C3_EveryValidFrameDispatched ==
    msp_done # <<>> =>
        \E i \in 1..Len(msp_out) :
            /\ msp_out[i].kind = "dispatch"
            /\ msp_out[i].fn = msp_done[1].fn
            /\ msp_out[i].data = msp_done[1].payload


(***************************************************************************)
(* Properties of the CRSF deframer.                                        *)
(***************************************************************************)
\* The bytes are one whole frame [addr, len, type, payload, crc] whose last
\* byte is the CRC-8/DVB-S2 of type and payload, and f is that frame.
CrsfRawIsFrame(raw, f) ==
    /\ Len(raw) >= 4
    /\ Len(raw) = raw[2] + 2
    /\ raw[Len(raw)] = Crc8Table(SubSeq(raw, 3, Len(raw) - 1))
    /\ f.addr = raw[1]
    /\ f.type = raw[3]
    /\ f.payload = SubSeq(raw, 4, Len(raw) - 1)

\* C2: every frame the CRSF deframer emits is the frame just accumulated and
\* its last body byte is the CRC-8/DVB-S2 (poly 0xD5, init 0) of type and
\* payload; nothing is emitted on a CRC mismatch.
C2_CrsfEmitsOnlyCrcValidFrames ==
    [][ crsf_out' # <<>> =>
          /\ Len(crsf_out') = 1
          /\ CrsfRawIsFrame(crsf_raw', crsf_out'[1]) ]_vars

\* C2 witness: a frame with a payload was emitted.
C2_Witness ==
    /\ crsf_out # <<>>
    /\ crsf_out[1].payload # <<>>

\* C4: line noise 0xFF 0xFF before a valid RC-channels frame: the deframer,
\* fed the whole stream from its initial state, emits exactly that one frame.
C4_CrsfResyncAfterNoise ==
    ( /\ crsf_script # <<>>
      /\ crsf_pending = <<>>
      /\ crsf_garbage = 0 )
    => LET s == crsf_script[1]
       IN  ( s.noise = <<255, 255>> /\ s.frame.damage = 0 /\ s.frame.type = 22 )
           => crsf_emitted = << [addr |-> s.frame.addr, type |-> 22,
                                 payload |-> s.frame.payload] >>

(***************************************************************************)
(* Properties of the encoders.                                             *)
(***************************************************************************)
Bit(x, k) == (x \div (2 ^ k)) % 2

\* Reference unpack: channel i is the 11 bits at stream bits 11*i .. 11*i+10
\* of the bytes, least significant first.
RECURSIVE UnpackBits(_, _, _)
UnpackBits(bytes, i, k) ==
    IF k > 10 THEN 0
    ELSE Bit(bytes[((11 * i + k) \div 8) + 1], (11 * i + k) % 8) * (2 ^ k)
            + UnpackBits(bytes, i, k + 1)

Unpack(bytes) == [i \in 1..16 |-> UnpackBits(bytes, i - 1, 0)]

\* C5: the RC-channels frame is 26 bytes: 0xC8, 24, 0x16, the 22 packed bytes
\* and the CRC-8/DVB-S2 of bytes [1..24] (length, type and the whole payload).
C5_RcFrameCrcCoversLengthTypePayload ==
    enc_frame # <<>> =>
        /\ Len(enc_frame) = 26
        /\ enc_frame[1] = 200 /\ enc_frame[2] = 24 /\ enc_frame[3] = 22
        /\ Unpack(SubSeq(enc_frame, 4, 25)) = [i \in 1..16 |-> enc_channels[i] % 2048]
        /\ enc_frame[26] = Crc8Table(SubSeq(enc_frame, 2, 25))

\* C6: the 22 packed bytes are the LSB-first concatenation of each channel's
\* low 11 bits: bit k of channel i is stream bit 11*i + k, and the reference
\* unpack gives back every channel's low 11 bits.
C6_PackIsLsbFirstConcatenation ==
    enc_frame # <<>> =>
        LET packed == SubSeq(enc_frame, 4, 25)
        IN  /\ Len(packed) = 22
            /\ \A n \in 1..22 : packed[n] \in 0..255
            /\ \A i \in 0..15 : \A k \in 0..10 :
                 Bit(packed[((11 * i + k) \div 8) + 1], (11 * i + k) % 8)
                     = Bit(enc_channels[i + 1], k)
            /\ Unpack(packed) = [i \in 1..16 |-> enc_channels[i] % 2048]

\* C6 witness: packed channels of which one has all 11 low bits set and the
\* others have only bits above the low 11.
C6_Witness ==
    /\ enc_frame # <<>>
    /\ enc_channels[1] = 63488
    /\ enc_channels[6] = 2047

\* C7: the MSP request is $ M < len function payload and a checksum equal to
\* the XOR of len, function and every payload byte.
C7_MspChecksumCoversWholePayload ==
    enc_msp_out # <<>> =>
        enc_msp_out = <<36, 77, 60, Len(enc_msp_in[2]), enc_msp_in[1]>>
                          \o enc_msp_in[2]
                          \o <<XorAll(<<Len(enc_msp_in[2]), enc_msp_in[1]>> \o enc_msp_in[2])>>

(***************************************************************************)
(* Properties of the transmitter facade.                                   *)
(***************************************************************************)
\* Channel i (0-based) of an RC-channels frame.
FrameChannel(frame, i) == Unpack(SubSeq(frame, 4, 25))[i + 1]

\* C8: once emergencyStop() has returned, and until a later setControlInputs
\* or setArmed takes effect (calls are ordered by their taking inputs_mutex_),
\* the control inputs are all zero and false, and every frame the TX loop
\* builds from a snapshot taken in that time, under any interleaving with the
\* callers, carries throttle channel (index 2) = 172 and arm channel
\* (index 4) = 172.
C8_EmergencyStopReachesTheWire ==
    /\ estop_clean => control_inputs_ = ControlInputs(0, 0, 0, 0, FALSE, FALSE, FALSE)
    /\ \A s \in ThreadObjects :
          (tx_loops[s].pc = "write" /\ tx_loops[s].clean)
              => /\ FrameChannel(buildChannelFrame(tx_loops[s].inputs), 2) = 172
                 /\ FrameChannel(buildChannelFrame(tx_loops[s].inputs), 4) = 172
    /\ (wire.by = "tx_loop" /\ wire.clean)
          => /\ FrameChannel(wire.bytes, 2) = 172
             /\ FrameChannel(wire.bytes, 4) = 172

\* C8 witness: the last frame on the wire was built from a snapshot taken
\* after emergencyStop() returned, and both callers are back.
C8_Witness ==
    /\ estop_clean
    /\ wire.by = "tx_loop" /\ wire.clean
    /\ \A c \in Callers : callers[c].pc = "idle"

\* C9: a send made while the device is not connected returns false at once,
\* leaves "USB device not connected" as the last error and leaves the wire
\* untouched; a send that reaches the bridge returns exactly what the write
\* returned: true with its frame on the wire, or false with the wire untouched.
C9_MspSendNeedsConnection ==
    [][ \A c \in Callers :
          /\ ( callers[c].pc = "idle" /\ callers'[c] # callers[c] /\ ~connected )
                => /\ callers'[c].pc = "idle"
                   /\ callers'[c].ret = "false"
                   /\ msp_last_error' = "USB device not connected"
                   /\ wire' = wire
          /\ ( callers[c].pc = "idle" /\ callers'[c] # callers[c] /\ connected )
                => callers'[c].pc = "msp_write" /\ wire' = wire
          /\ ( callers[c].pc = "msp_write" /\ callers'[c].pc = "idle" )
                => IF connected
                   THEN /\ callers'[c].ret = "true"
                        /\ wire'.by = c
                        /\ Len(wire'.bytes) = Len(callers[c].arg.req.payload) + 6
                   ELSE /\ callers'[c].ret = "false"
                        /\ wire' = wire ]_vars

\* C9 witness: one caller's send failed on a disconnected device and left the
\* error, and the other caller's send was written after the device connected.
C9_Witness ==
    \E c, d \in Callers :
        /\ callers[c].pc = "idle" /\ callers[c].ret = "false" /\ ~callers[c].send.open
        /\ msp_last_error = "USB device not connected"
        /\ callers[d].pc = "idle" /\ callers[d].ret = "true"
        /\ wire.by = d

\* C10: at any time at most one thread is running transmissionLoop.
C10_AtMostOneTxLoopThread ==
    Cardinality({s \in ThreadObjects : Alive(tx_loops[s])}) <= 1

\* C11: a stop() called on a running transmitter returns (it does not end in
\* a fault), and from its return until the next call of start() neither
\* transmissionLoop nor telemetryLoop is running, so neither issues a write
\* or a read.
C11_StopQuiescesBothLoops ==
    /\ \A c \in Callers : callers[c].op = "stop" => ~terminated
    /\ stop_returned =>
          \A s \in ThreadObjects : ~Alive(tx_loops[s]) /\ ~Alive(tel_loops[s])

\* C12: the step by which start() returns true leaves a TX loop and a reader
\* loop running, and the step by which stop() returns leaves no loop running
\* and the bridge no longer connected.
C12_LifecycleSpawnsBothAndReleasesPort ==
    [][ /\ \A c \in Callers :
             ( callers[c].op = "start" /\ callers'[c].pc = "idle"
               /\ callers'[c].ret = "true" )
                 => /\ \E s \in ThreadObjects : Alive(tx_loops'[s])
                    /\ \E s \in ThreadObjects : Alive(tel_loops'[s])
        /\ ( ~stop_returned /\ stop_returned' )
              => /\ \A s \in ThreadObjects :
                      ~Alive(tx_loops'[s]) /\ ~Alive(tel_loops'[s])
                 /\ ~connected' ]_vars

(***************************************************************************)
(* Properties of RadioState.                                               *)
(***************************************************************************)
\* The step by which thread t returns from the operation it is in.
Returns(t) == rs_threads[t].pc = "return" /\ rs_threads'[t].pc = "idle"

\* The same subscriber was registered from the entry of t's call on: it was
\* registered when t entered, and no subscription call ran during the call.
SubscribedThroughout(t) == rs_threads[t].expect \in Callbacks

\* C13 as stated: with a subscriber registered, every call of an update
\* operation, whatever its argument, has invoked the subscriber exactly once
\* when it returns.
C13_EveryUpdateNotifiesOnce ==
    [][ \A t \in RsThreads :
          ( Returns(t) /\ rs_threads[t].op \in UpdateOps /\ SubscribedThroughout(t) )
            => rs_threads[t].notified = <<rs_threads[t].expect>> ]_vars

\* C13 amended: with a subscriber registered, every call of an update
\* operation has invoked the subscriber exactly once when it returns, except
\* updateSpectrumData with empty data, which returns without invoking it.
C13_UpdateNotifiesOnceUnlessEmptySpectrum ==
    [][ \A t \in RsThreads :
          ( Returns(t) /\ rs_threads[t].op \in UpdateOps /\ SubscribedThroughout(t) )
            => rs_threads[t].notified =
                 IF ReturnsEarly(rs_threads[t].op, rs_threads[t].arg)
                 THEN <<>> ELSE <<rs_threads[t].expect>> ]_vars

\* C13 witness: an update call is about to return with the subscriber, which
\* was registered throughout, invoked once.
C13_Witness ==
    \E t \in RsThreads :
        /\ rs_threads[t].pc = "return"
        /\ rs_threads[t].op = "updateSpectrumData"
        /\ ~ReturnsEarly(rs_threads[t].op, rs_threads[t].arg)
        /\ SubscribedThroughout(t)
        /\ rs_threads[t].notified = <<rs_threads[t].expect>>

\* The most recent n values of a log, in arrival order.
MostRecent(log, n) ==
    IF Len(log) <= n THEN log ELSE SubSeq(log, Len(log) - n + 1, Len(log))

\* C14: each of the three histories holds at most 200 entries and is the
\* most recent (up to 200) values appended to it since it was last cleared,
\* in arrival order: an append at 200 entries removes the oldest entry.
C14_HistoriesBoundedFifo ==
    \A h \in Histories :
        /\ Len(radio[h]) <= MAX_HISTORY_SIZE
        /\ radio[h] = MostRecent(hist_log.log[h], MAX_HISTORY_SIZE)

\* C14 witness: a history holds 200 entries after more than 200 appends, its
\* oldest entry gone, while another history has received fewer values.
C14_Witness ==
    \E h, g \in Histories :
        /\ Len(hist_log.log[h]) > MAX_HISTORY_SIZE
        /\ Len(radio[h]) = MAX_HISTORY_SIZE
        /\ Head(radio[h]) # Head(hist_log.log[h])
        /\ Len(hist_log.log[g]) < Len(hist_log.log[h])

\* C15: a mutation that starts after a subscription call has returned, with
\* no other subscription call in between, invokes the callback that call left
\* in the slot, once, and no other: the callback of subscribeToChanges(B),
\* never the callback A it replaced, and none after unsubscribeFromChanges().
C15_SingleSlotSubscription ==
    [][ \A t \in RsThreads :
          /\ ( rs_threads[t].pc = "body" /\ rs_threads[t].expect # "any"
               /\ rs_threads'[t].notified # rs_threads[t].notified )
               => /\ rs_threads[t].expect \in Callbacks
                  /\ rs_threads'[t].notified = <<rs_threads[t].expect>>
          /\ ( Returns(t) /\ rs_threads[t].op \in MutationOps
               /\ rs_threads[t].expect # "any"
               /\ ~ReturnsEarly(rs_threads[t].op, rs_threads[t].arg) )
               => rs_threads[t].notified =
                    IF rs_threads[t].expect \in Callbacks
                    THEN <<rs_threads[t].expect>> ELSE <<>> ]_vars

\* C15 witness: subscribeToChanges(B) replaced callback A, and a mutation that
\* started afterwards is about to return having invoked B.
C15_Witness ==
    \E t \in RsThreads :
        /\ rs_committed.replaced = "A"
        /\ rs_committed.r.state_change_callback_ = "B"
        /\ rs_threads[t].pc = "return"
        /\ rs_threads[t].op \in MutationOps
        /\ rs_threads[t].expect = "B"
        /\ rs_threads[t].notified = <<"B">>

\* C15 witness for the unsubscribed half: unsubscribeFromChanges() emptied
\* the slot that held a callback, and a mutation that started afterwards is
\* about to return having invoked nothing.
C15_WitnessUnsubscribed ==
    \E t \in RsThreads :
        /\ rs_committed.replaced \in Callbacks
        /\ rs_committed.r.state_change_callback_ = "null"
        /\ rs_threads[t].pc = "return"
        /\ rs_threads[t].op \in MutationOps
        /\ rs_threads[t].expect = "null"
        /\ rs_threads[t].notified = <<>>

\* C16: what a snapshot accessor returns is the object as the last completed
\* operation left it: while an update call is under way on another thread
\* that is the complete state before the call, afterwards the complete state
\* after it, never a state between two of its statements.
C16_ReadersSeeWholeUpdates ==
    [][ \A t \in RsThreads :
          ( rs_threads[t].pc = "read" /\ rs_threads'[t].pc = "return" )
            => rs_threads'[t].result =
                 Snapshot(rs_committed, rs_threads[t].op, rs_threads[t].arg) ]_vars

\* C16 witness: an update call is between two of its statements, the object
\* differs from what the last completed operation left, and a reader that
\* called a snapshot accessor meanwhile is held at the mutex.
C16_Witness ==
    \E t, u \in RsThreads :
        /\ rs_threads[t].op \in UpdateOps
        /\ rs_threads[t].pc = "body" /\ rs_threads[t].i > 1
        /\ radio # rs_committed.r
        /\ rs_threads[u].op \in AccessorOps
        /\ rs_threads[u].pc = "lock"

(***************************************************************************)
(* Properties of the link-stats path from the wire to RadioState.          *)
(***************************************************************************)
\* The last byte of frame f was just fed, and the bytes the parser consumed
\* since Idle are exactly that frame: it was delimited and dispatched.
Dispatched(f) ==
    /\ msp_done = <<f>>
    /\ msp_raw = MspWireFrame(f.dir, f.fn, f.payload, f.damage)

\* The step that dispatches frame f.
Dispatches(f) ==
    /\ msp_done' = <<f>>
    /\ msp_raw' = MspWireFrame(f.dir, f.fn, f.payload, f.damage)

LinkStats(rssi1, rssi2, lq, snr, txPower) ==
    [rssi1 |-> rssi1, rssi2 |-> rssi2, link_quality |-> lq, snr |-> snr,
     tx_power |-> txPower, valid |-> TRUE]

isSpectrumFresh(maxAgeMs) ==
    /\ rs_spectrum # <<>>
    /\ steady_clock - radio.spectrum_last_update_ <= maxAgeMs

\* C18: once the link-stats frame with the 12-byte payload A4 5A 0A 14
\* 01..08 has been dispatched, the latest LinkStats is rssi1 = -92,
\* rssi2 = -92, lq = 90, snr = 10, txPower = 20, valid, the spectrum snapshot
\* is 1..8, and isSpectrumFresh(1000) is true.
C18_TwelveByteFrameIsCompactWithEightBins ==
    \A f \in MspTraffic :
        ( Dispatched(f) /\ f.fn = 45
          /\ f.payload = <<164, 90, 10, 20, 1, 2, 3, 4, 5, 6, 7, 8>> )
          => /\ th.latest_link_stats = LinkStats(-92, -92, 90, 10, 20)
             /\ rs_spectrum = <<1, 2, 3, 4, 5, 6, 7, 8>>
             /\ isSpectrumFresh(1000)

\* C19: the step that dispatches an accepted link-stats frame (function
\* 0x2D, four bytes or more) leaves RadioState's live telemetry carrying the
\* parsed rssi1, rssi2, link quality, snr and tx power with isValid set, each
\* of the three histories one entry longer, and the subscriber, if there is
\* one, invoked.
C19_AcceptedLinkStatsReachRadioState ==
    [][ \A f \in MspTraffic :
          ( Dispatches(f) /\ f.fn = 45 /\ Len(f.payload) >= 4 ) =>
            /\ radio'.live_telemetry_.rssi1 = th'.latest_link_stats.rssi1
            /\ radio'.live_telemetry_.rssi2 = th'.latest_link_stats.rssi2
            /\ radio'.live_telemetry_.linkQuality = th'.latest_link_stats.link_quality
            /\ radio'.live_telemetry_.snr = th'.latest_link_stats.snr
            /\ radio'.live_telemetry_.txPower = th'.latest_link_stats.tx_power
            /\ radio'.live_telemetry_.isValid
            /\ \A h \in Histories : Len(radio'[h]) = Len(radio[h]) + 1
            /\ radio.state_change_callback_ # "null" => rs_invoked' # <<>> ]_vars

\* C20: the link quality of the latest LinkStats, of every LinkStats passed
\* to the link-stats callback, and of RadioState's live telemetry is between
\* 0 and 100.
C20_LinkQualityIsAPercentage ==
    /\ th.latest_link_stats.link_quality \in 0..100
    /\ \A i \in 1..Len(msp_out) :
         msp_out[i].kind = "link_stats_callback" => msp_out[i].data[3] \in 0..100
    /\ radio.live_telemetry_.linkQuality \in 0..100

(***************************************************************************)
(* Properties of the channel mapping.                                      *)
(***************************************************************************)
\* The stick axes of a ControlInputs value, with the channel each goes to.
StickAxes(inputs) == {<<inputs.roll, 0>>, <<inputs.pitch, 1>>, <<inputs.yaw, 3>>}

\* C21: the stick mapping sends 0.0 to 992, -1.0 to 172 and +1.0 to 1811:
\* in every frame buildChannelFrame wrote, the channel of a stick axis held
\* at 0.0 is 992, at -1.0 it is 172 and at +1.0 it is 1811.
C21_StickMappingAnchors ==
    map_frame # <<>> =>
        \A ax \in StickAxes(map_inputs) :
            /\ ax[1] = 0 => FrameChannel(map_frame, ax[2]) = 992
            /\ ax[1] = -10 => FrameChannel(map_frame, ax[2]) = 172
            /\ ax[1] = 10 => FrameChannel(map_frame, ax[2]) = 1811

\* C22: for every ControlInputs value the frame builder writes a whole
\* 26-byte frame whose 16 channels lie in [172, 1811]; channels 4..6 are
\* 172 or 1811 as armed, mode1 and mode2 say, and channels 7..15 are 992.
C22_EveryInputEncodesInRange ==
    map_frame # <<>> =>
        /\ Len(map_frame) = 26
        /\ \A i \in 0..15 : FrameChannel(map_frame, i) \in 172..1811
        /\ FrameChannel(map_frame, 4) = (IF map_inputs.armed THEN 1811 ELSE 172)
        /\ FrameChannel(map_frame, 5) = (IF map_inputs.mode1 THEN 1811 ELSE 172)
        /\ FrameChannel(map_frame, 6) = (IF map_inputs.mode2 THEN 1811 ELSE 172)
        /\ \A i \in 7..15 : FrameChannel(map_frame, i) = 992

(***************************************************************************)
(* Properties of the writes to the port.                                   *)
(***************************************************************************)
\* The threads inside write() of the bridge.  Between the snapshot of the
\* inputs (the connection test of sendMspCommand) and the return of write()
\* a thread touches only its own frame buffer and takes no lock, so a thread
\* at its write position is one whose write call is executing.
Writing ==
    { <<"tx_loop", s>> : s \in { s \in ThreadObjects : tx_loops[s].pc = "write" } }
        \cup { <<"msp", c>> : c \in { c \in Callers : callers[c].pc = "msp_write" } }

\* C23: the writes of the TX loop and of the MSP helpers on caller threads
\* exclude each other: at no time are two threads inside write() of the
\* bridge.
C23_PortWritesAreMutuallyExclusive == Cardinality(Writing) <= 1

(***************************************************************************)
(* Properties of the loops under transport errors.                         *)
(***************************************************************************)
\* A pass of the reader loop whose read() found the port closed and gave -1.
ReadFails(s) ==
    /\ tel_loops[s].pc = "read" /\ tel_loops'[s].pc = "while"
    /\ ~connected

\* C24: when a read of the running reader loop fails with a transport error
\* (read returns -1, the port is closed), the reader surfaces it: after that
\* pass of the loop RadioState's connection status is Error and its last
\* error is set.
C24_ReaderSurfacesReadFailure ==
    [][\A s \in ThreadObjects :
          ReadFails(s) => /\ radio'.connection_status_ = "Error"
                          /\ radio'.last_error_ # ""
                          /\ radio'.has_error_]_vars

\* A step of TX loop s from position from to another position.
TxLoopLeaves(s, from) == tx_loops[s].pc = from /\ tx_loops'[s].pc # from

\* Parts of C25 that its two readings share: a failed write sends the loop
\* back to its test of the running flag, which it passes while the flag is
\* set; the loop exits only at that test, with the flag cleared, and only
\* stop() clears the flag.
TxLoopSurvivesFailedWrites(s) ==
    /\ (TxLoopLeaves(s, "write") /\ ~terminated' /\ tx_loops'[s].write_failed)
          => tx_loops'[s].pc = "while"
    /\ (TxLoopLeaves(s, "while") /\ running_) => tx_loops'[s].pc = "connected"
    /\ (tx_loops[s].pc # "exited" /\ tx_loops'[s].pc = "exited")
          => tx_loops[s].pc = "while" /\ ~running_
    /\ (running_ /\ ~running_')
          => \E c \in Callers : callers[c].op = "stop"

\* C25 as stated: a failed write never ends the TX loop; after it, with the
\* running flag set, the next pass of the loop builds a frame and attempts
\* to write it; the loop exits only after stop() cleared the running flag.
C25_FailedWriteNeverEndsTxLoop ==
    [][\A s \in ThreadObjects :
          /\ TxLoopSurvivesFailedWrites(s)
          /\ (TxLoopLeaves(s, "connected") /\ tx_loops[s].write_failed)
                => tx_loops'[s].pc = "build"
          /\ TxLoopLeaves(s, "build") => tx_loops'[s].pc = "write"]_vars

\* C25 amended: as above, but the next pass builds and writes a frame only
\* if the bridge reports connected; otherwise it sleeps 10 ms and goes back
\* to the test of the running flag.
C25_FailedWriteNeverEndsTxLoopWhileConnected ==
    [][\A s \in ThreadObjects :
          /\ TxLoopSurvivesFailedWrites(s)
          /\ (TxLoopLeaves(s, "connected") /\ tx_loops[s].write_failed)
                => tx_loops'[s].pc = (IF connected THEN "build" ELSE "while")
          /\ TxLoopLeaves(s, "build") => tx_loops'[s].pc = "write"]_vars

\* C25 witness: a loop whose last write failed has passed the test of the
\* running flag again and finds the bridge connected: it goes on to build
\* and write the next frame.
C25_Witness ==
    \E s \in ThreadObjects :
        /\ tx_loops[s].pc = "connected" /\ tx_loops[s].write_failed
        /\ running_ /\ connected

(***************************************************************************)
(* Properties of the accesses to the control inputs.                       *)
(***************************************************************************)
\* C26: every write and every read of control_inputs_ is made under
\* inputs_mutex_: a write is made by the holder of the mutex, and a read (the
\* snapshot of the TX loop, the read of isArmed) is made while no other
\* thread holds it, so that the snapshot and the result of isArmed are those
\* of the whole value the last completed setter call left.
C26_InputsAccessedUnderMutex ==
    [][/\ control_inputs_' # control_inputs_ => inputs_mutex_ \in Callers
       /\ \A s \in ThreadObjects :
             (tx_loops[s].pc = "build" /\ tx_loops'[s].pc = "write")
                => /\ inputs_mutex_ = "free"
                   /\ tx_loops'[s].inputs = control_inputs_
       /\ \A c \in Callers :
             (callers[c].pc = "is_armed" /\ callers'[c].pc = "idle")
                => /\ inputs_mutex_ = "free"
                   /\ callers'[c].ret = (IF control_inputs_.armed THEN "armed"
                                         ELSE "not armed")]_vars

(***************************************************************************)
(* Properties of the MSP parser under malformed frames.                    *)
(***************************************************************************)
\* A frame of a known function whose payload is too short for it.
WrongLength(f) ==
    \/ f.fn = 45 /\ Len(f.payload) < 4
    \/ f.fn = 46 /\ Len(f.payload) < 6

C28_ReaderExitsOnClosedPort ==
    [][\A s \in ThreadObjects :
          ( /\ tel_loops[s].pc \in {"connected", "read"}
            /\ tel_loops'[s].pc # tel_loops[s].pc
            /\ ~connected )
             => tel_loops'[s].pc = "exited"]_vars

(***************************************************************************)
(* Properties of the deframers' buffers.                                   *)
(***************************************************************************)
\* The byte the CRSF deframer was fed in this step.
CrsfFedByte == crsf_raw'[Len(crsf_raw')]

\* C29: the CRSF deframer holds and emits no frame of more than 64 bytes
\* (address, length and the length's body bytes): in L_WAIT a length byte
\* above 62, like a length byte below 2, puts the parser back to A_WAIT
\* with an empty buffer, and no emitted frame has more than 60 payload bytes.
C29_CrsfFrameAtMost64Bytes ==
    [][ /\ cd.st = "L_WAIT" /\ (CrsfFedByte < 2 \/ CrsfFedByte + 2 > 64)
           => cd'.st = "A_WAIT" /\ cd'.buf = <<>>
        /\ cd'.st = "BODY" => cd'.len + 2 <= 64 /\ Len(cd'.buf) + 2 <= 64
        /\ \A i \in 1..Len(crsf_out') : Len(crsf_out'[i].payload) + 4 <= 64 ]_vars

\* C30: in every state of the MSP deframer the payload buffer holds at most
\* 128 bytes, whatever length byte the frame on the wire declares.
C30_MspPayloadAtMost128Bytes == Len(th.msp_payload) <= 128

(***************************************************************************)
(* Properties of RadioState's start time.                                  *)
(***************************************************************************)
\* C31: start_time_ is written only by the constructor: no step of any
\* RadioState operation, resetStatistics included, changes it, so that
\* getStartTime returns the same value in every reachable state.
C31_StartTimeWrittenOnlyAtInit ==
    [][radio'.start_time_ = radio.start_time_]_vars

(***************************************************************************)
(* Properties of the TX loop's pacing.                                     *)
(***************************************************************************)
\* C32: the TX loop paces its ticks from the previous tick's start and not
\* from the time the previous sleep ended: as long as no pass took its
\* whole interval and the bridge stayed connected, the deadline the k-th
\* pass asks to be woken at is k intervals after the loop's start, however
\* late the earlier sleeps returned (no cumulative drift).
C32_TickDeadlinesDoNotDrift ==
    (tx_sched.ticks >= 1 /\ ~tx_sched.overrun)
        => tx_sched.deadline = tx_sched.started + tx_sched.ticks * target_interval

(***************************************************************************)
(* Properties of the MSP parser's bookkeeping.                             *)
(***************************************************************************)
\* C33: after every byte the parser's fields agree with the bytes consumed
\* since Idle ($ M direction length function payload...): in ReadPayload the
\* payload holds fewer bytes than the declared length; in ExpectChecksum it
\* holds exactly the declared length and the checksum is the XOR of length,
\* function and payload; a declared length of 0 goes from ExpectFunction
\* straight to ExpectChecksum; the byte consumed in ExpectChecksum, matching
\* or not, puts the parser in Idle with direction, length, function,
\* checksum and payload cleared.
C33_MspParserBookkeeping ==
    [][ /\ th'.msp_state = "ReadPayload" =>
             /\ Len(th'.msp_payload) < th'.msp_expected_length
             /\ th'.msp_payload = SubSeq(msp_raw', 6, Len(msp_raw'))
        /\ th'.msp_state = "ExpectChecksum" =>
             /\ Len(th'.msp_payload) = th'.msp_expected_length
             /\ th'.msp_expected_length = msp_raw'[4]
             /\ th'.msp_function = msp_raw'[5]
             /\ th'.msp_payload = SubSeq(msp_raw', 6, Len(msp_raw'))
             /\ th'.msp_checksum = XorAll(SubSeq(msp_raw', 4, Len(msp_raw')))
        /\ (th.msp_state = "ExpectFunction" /\ th.msp_expected_length = 0)
              => th'.msp_state = "ExpectChecksum"
        /\ th.msp_state = "ExpectChecksum" =>
             /\ th'.msp_state = "Idle"
             /\ th'.msp_from_device = FALSE
             /\ th'.msp_expected_length = 0
             /\ th'.msp_function = 0
             /\ th'.msp_checksum = 0
             /\ th'.msp_payload = <<>> ]_vars

\* C33 witness: a reply without payload has been consumed whole, its
\* checksum byte included, and the parser is back in Idle.
C33_Witness ==
    /\ msp_done # <<>>
    /\ msp_done[1].payload = <<>>
    /\ Len(msp_raw) = 6
    /\ th.msp_state = "Idle"

(***************************************************************************)
(* Properties of the encoder and the deframer together.                    *)
(***************************************************************************)
\* C34: encoder and deframer agree on the CRC: when the deframer, started
\* in its initial state, has been fed the whole 26-byte frame that
\* buildRcChannelsFrame wrote for a channel array, it has emitted exactly
\* one frame, with address 0xC8, type 0x16 and the frame's 22 payload bytes.
C34_BuiltFrameIsDeframed ==
    (enc_frame # <<>> /\ crsf_script # <<>> /\ crsf_pending = <<>>)
        => crsf_emitted = << [addr |-> 200, type |-> 22,
                              payload |-> SubSeq(enc_frame, 4, 25)] >>

(***************************************************************************)
(* Properties of the transmitter built on a serial bridge.                 *)
(***************************************************************************)
\* C35: a transmitter constructed in serial mode has no telemetry handler,
\* and its start() and stop() call only into what exists: no step of stop()
\* makes the call telemetry_handler_->stop(), and no step ends the process.
C35_SerialStopUsesNoAbsentHandler ==
    [][ using_serial_mode_ =>
          /\ \A c \in Callers :
               callers[c].pc = "stop_telemetry" => callers'[c].pc = "stop_telemetry"
          /\ ~terminated' ]_vars

(***************************************************************************)
(* Properties of the MSP command builder's buffer.                         *)
(***************************************************************************)
\* C36: for every payload_size from 0 to 255, buildMspCommand stores bytes
\* only at the indices 0..63 of its 64-byte buffer, and the out_size it
\* reports is payload_size + 6, the length of the whole frame.
C36_MspCommandFitsItsBuffer ==
    enc_msp_out # <<>> =>
        /\ Len(enc_msp_out) <= MspFrameBufferSize
        /\ enc_msp_size = Len(enc_msp_in[2]) + 6
        /\ enc_msp_size = Len(enc_msp_out)

(***************************************************************************)
(* Properties of observers that read RadioState.                           *)
(***************************************************************************)
\* C37: an observer that calls a read accessor from inside the notification
\* returns, and the update that notified it completes: no thread is left
\* waiting for the state mutex it holds itself, and no accessor's lock ends
\* the process.
C37_ReadingObserverReturns ==
    \A t \in RsThreads : rs_threads[t].pc \notin SelfLockOutcomes

(***************************************************************************)
(* Properties of the subscription slot.                                    *)
(***************************************************************************)
\* Thread t executes, in this step, a statement of its operation that reads
\* and invokes the subscription slot (the notification) or writes it.
TouchesSlot(t) ==
    /\ rs_threads[t].pc = "body"
    /\ rs_threads'[t] # rs_threads[t]
    /\ Body(rs_threads[t].op, rs_threads[t].arg)[rs_threads[t].i].k \in {"notify", "slot"}

\* C38: the subscription slot is read, written and invoked only by a thread
\* that holds the state mutex, under every notifying operation,
\* markSystemReady included; so no notification runs while a subscribe or
\* unsubscribe call on another thread is inside its critical section.
C38_SlotTouchedOnlyUnderMutex ==
    [][ \A t \in RsThreads :
          TouchesSlot(t) =>
             /\ state_mutex_ = t
             /\ \A u \in RsThreads \ {t} :
                  ~( /\ rs_threads[u].op \in SubscriptionOps
                     /\ rs_threads[u].pc \in {"body", "return"} ) ]_vars

(***************************************************************************)
(* Properties of the handler's latest values.                              *)
(***************************************************************************)
\* C39: a call of getLatestLinkStats made while the reader thread dispatches
\* frames returns a value that latest_link_stats_ held whole at some moment
\* of the call (the initial value or the value one accepted frame
\* published), never a mix of the members of two values.
C39_LatestReadIsWhole ==
    latest_read.pc = "done" => latest_read.result \in latest_read.during

====
